---- MODULE Spec2Model ----
(***************************************************************************)
(* A model of the FAP interpreter's evaluator (RuntimeChecker) and its     *)
(* Environment.  One step of the model is one iteration of the top-level   *)
(* statement loop of RuntimeChecker.execute: the whole visit of one        *)
(* top-level statement, every nested block, loop iteration and function    *)
(* call included, followed by execute's exception handler.                 *)
(*                                                                         *)
(* Syntax trees and values are tuples whose first element is a tag.        *)
(* The interpreter runs with both debug flags off (main's default), so an  *)
(* error text carries no line number.                                      *)
(***************************************************************************)
EXTENDS Integers, Sequences, FiniteSets, TLC

(***************************************************************************)
(* Bounds of the model.                                                    *)
(***************************************************************************)
\* number of top-level statements of a program
MaxStmts == 4
\* digits that the formatting of a float's fraction may produce
MaxFracDigits == 17

(***************************************************************************)
(* Values.  <<"NoneType">> is Python's None; <<"int", n>>; <<"float", num, *)
(* den>> is the exact rational num/den in lowest terms (the model only     *)
(* produces dyadic rationals, which a double holds exactly); <<"str", s>>  *)
(* holds the text as a sequence of one-character strings; <<"list", r>> is *)
(* a reference into the list heap; <<"dict", name>> is one of the four     *)
(* built-in pseudo-objects or a function record read as a value.           *)
(***************************************************************************)
None == <<"NoneType">>
IntV(n) == <<"int", n>>
StrV(s) == <<"str", s>>
ListV(r) == <<"list", r>>
DictV(n) == <<"dict", n>>
TypeName(v) == v[1]

Abs(n) == IF n < 0 THEN -n ELSE n

RECURSIVE Gcd(_, _)
Gcd(a, b) == IF b = 0 THEN a ELSE Gcd(b, a % b)

FloatV(num, den) ==
  LET g == Gcd(Abs(num), den)
  IN  <<"float", IF num < 0 THEN -(Abs(num) \div g) ELSE num \div g, den \div g>>

IsNumber(v) == TypeName(v) \in {"int", "float"}
Num(v) == IF TypeName(v) = "int" THEN v[2] ELSE v[2]
Den(v) == IF TypeName(v) = "int" THEN 1 ELSE v[3]
\* a test that takes every float for a whole number
is_integer_always(v) == TRUE
is_integer(v) == v[3] = 1
\* int(x) of a number: truncation toward zero
Trunc(v) == IF Num(v) < 0 THEN -(Abs(Num(v)) \div Den(v)) ELSE Num(v) \div Den(v)

(***************************************************************************)
(* Text.                                                                   *)
(***************************************************************************)
DigitChar == <<"0", "1", "2", "3", "4", "5", "6", "7", "8", "9">>
Digits == {DigitChar[k] : k \in 1..Len(DigitChar)}
DigitOf(c) == (CHOOSE k \in 1..Len(DigitChar) : DigitChar[k] = c) - 1

\* str.isdigit()
isdigit(s) == Len(s) > 0 /\ \A k \in 1..Len(s) : s[k] \in Digits

RECURSIVE ParseNat(_)
ParseNat(s) ==
  IF s = <<>> THEN 0
  ELSE ParseNat(SubSeq(s, 1, Len(s) - 1)) * 10 + DigitOf(s[Len(s)])

RECURSIVE FormatNat(_)
FormatNat(n) ==
  IF n < 10 THEN <<DigitChar[n + 1]>>
  ELSE FormatNat(n \div 10) \o <<DigitChar[(n % 10) + 1]>>

FormatInt(n) == IF n < 0 THEN <<"-">> \o FormatNat(-n) ELSE FormatNat(n)

RECURSIVE Pow10(_)
Pow10(k) == IF k = 0 THEN 1 ELSE 10 * Pow10(k - 1)

RECURSIVE FracDigits(_, _, _)
FracDigits(rem, den, k) ==
  IF rem = 0 \/ k = 0 THEN <<>>
  ELSE <<DigitChar[((rem * 10) \div den) + 1]>> \o FracDigits((rem * 10) % den, den, k - 1)

\* repr of a float: "2.0", "1.5", "-0.25"
FormatFloat(num, den) ==
  LET a == Abs(num)
      frac == FracDigits(a % den, den, MaxFracDigits)
  IN  (IF num < 0 THEN <<"-">> ELSE <<>>) \o FormatNat(a \div den) \o <<".">>
        \o (IF frac = <<>> THEN <<"0">> ELSE frac)

\* the int(...) of a text that passed the isdigit test of cast_type
IntOfStr(s) == IF s[1] = "-" THEN -ParseNat(Tail(s)) ELSE ParseNat(s)

\* float(text): an optional sign, digits, an optional point and digits, at
\* least one digit in all.  (Exponents, inf, nan, blanks and underscores do
\* not occur in the texts of the model.)
FloatBody(s) == IF s # <<>> /\ s[1] \in {"-", "+"} THEN Tail(s) ELSE s
PointAt(s) == IF \E k \in 1..Len(s) : s[k] = "."
              THEN CHOOSE k \in 1..Len(s) : s[k] = "." /\ \A j \in 1..(k - 1) : s[j] # "."
              ELSE 0
AllDigits(s) == \A k \in 1..Len(s) : s[k] \in Digits
IsFloatText(s) ==
  LET Shape(b, p) ==
        IF p = 0 THEN isdigit(b)
        ELSE /\ AllDigits(SubSeq(b, 1, p - 1))
             /\ AllDigits(SubSeq(b, p + 1, Len(b)))
             /\ Len(b) > 1
      Body(b) == Shape(b, PointAt(b))
  IN  Body(FloatBody(s))
FloatOfStr(s) ==
  LET Parts(whole, frac) ==
        FloatV((IF s[1] = "-" THEN -1 ELSE 1)
                 * (ParseNat(whole) * Pow10(Len(frac)) + ParseNat(frac)),
               Pow10(Len(frac)))
      Split(b, p) ==
        Parts(IF p = 0 THEN b ELSE SubSeq(b, 1, p - 1),
              IF p = 0 THEN <<>> ELSE SubSeq(b, p + 1, Len(b)))
      Body(b) == Split(b, PointAt(b))
  IN  Body(FloatBody(s))


(***************************************************************************)
(* str(value).  A list prints its elements with repr, texts in quotes.     *)
(***************************************************************************)
RECURSIVE Repr(_, _, _)
JoinRepr(lists, elems, d) ==
  LET RECURSIVE Go(_)
      Go(k) == IF k > Len(elems) THEN <<>>
               ELSE (IF k > 1 THEN <<",", " ">> ELSE <<>>) \o Repr(lists, elems[k], d) \o Go(k + 1)
  IN  Go(1)
Repr(lists, v, d) ==
  CASE TypeName(v) = "int" -> FormatInt(v[2])
    [] TypeName(v) = "float" -> FormatFloat(v[2], v[3])
    [] TypeName(v) = "str" -> <<"'">> \o v[2] \o <<"'">>
    [] TypeName(v) = "NoneType" -> <<"N", "o", "n", "e">>
    [] TypeName(v) = "list" ->
         IF d = 0 THEN <<"[", ".", ".", ".", "]">>
         ELSE <<"[">> \o JoinRepr(lists, lists[v[2]], d - 1) \o <<"]">>
    [] OTHER -> <<"{", v[2], "}">>
\* depth to which nested lists are printed before Python's "[...]"
ReprDepth == 2
ToStr(lists, v) == IF TypeName(v) = "str" THEN v[2] ELSE Repr(lists, v, ReprDepth)

(***************************************************************************)
(* Environment: a scope holds three tables and the index of its parent in  *)
(* the sequence of scopes (0: none).  Scope 1 is the root.                 *)
(***************************************************************************)
EmptyMap == [n \in {} |-> None]
Without(f, name) == [n \in (DOMAIN f) \ {name} |-> f[n]]
NewScope(parent) ==
  [variables |-> EmptyMap, constants |-> EmptyMap, functions |-> EmptyMap, parent |-> parent]

\* a define_var that binds in the root scope, whatever the current scope
define_var_in_root(scopes, e, name, value) ==
  [scopes EXCEPT ![1].variables = (name :> value) @@ @]

define_var(scopes, e, name, value) ==
  [scopes EXCEPT ![e].variables = (name :> value) @@ @]

define_const(scopes, e, name, value) ==
  [scopes EXCEPT ![e].constants = (name :> value) @@ @]

define_func(scopes, e, name, params, body, env) ==
  [scopes EXCEPT ![e].functions =
     (name :> [params |-> params, body |-> body, env |-> env]) @@ @]

RECURSIVE is_defined(_, _, _)
is_defined(scopes, e, name) ==
  IF \/ name \in DOMAIN scopes[e].variables
     \/ name \in DOMAIN scopes[e].constants
     \/ name \in DOMAIN scopes[e].functions
  THEN TRUE
  ELSE IF scopes[e].parent # 0 THEN is_defined(scopes, scopes[e].parent, name)
  ELSE FALSE

is_constant(scopes, e, name) == name \in DOMAIN scopes[e].constants

RECURSIVE is_function(_, _, _)
is_function(scopes, e, name) ==
  \/ name \in DOMAIN scopes[e].functions
  \/ (scopes[e].parent # 0 /\ is_function(scopes, scopes[e].parent, name))

RECURSIVE get_func(_, _, _)
get_func(scopes, e, name) ==
  IF name \in DOMAIN scopes[e].functions THEN scopes[e].functions[name]
  ELSE get_func(scopes, scopes[e].parent, name)

\* Every caller tests is_defined first, so the "not defined" ValueError of
\* the root scope is never raised; the model returns None there.
RECURSIVE get_value(_, _, _)
get_value(scopes, e, name) ==
  IF name \in DOMAIN scopes[e].constants THEN scopes[e].constants[name]
  ELSE IF name \in DOMAIN scopes[e].variables THEN scopes[e].variables[name]
  ELSE IF name \in DOMAIN scopes[e].functions THEN DictV(name)
  ELSE IF scopes[e].parent # 0 THEN get_value(scopes, scopes[e].parent, name)
  ELSE None

\* set_value returns the scopes and the ValueError it raised (<<>>: none)
RECURSIVE set_value(_, _, _, _)
\* a set_value without the test for a constant: it stores into the constants
set_value_overwrites(scopes, e, name, value) ==
  IF name \in DOMAIN scopes[e].constants
  THEN [scopes |-> [scopes EXCEPT ![e].constants[name] = value], exc |-> <<>>]
  ELSE IF name \in DOMAIN scopes[e].variables
  THEN [scopes |-> [scopes EXCEPT ![e].variables[name] = value], exc |-> <<>>]
  ELSE IF scopes[e].parent # 0 /\ is_defined(scopes, scopes[e].parent, name)
  THEN set_value(scopes, scopes[e].parent, name, value)
  ELSE [scopes |-> scopes, exc |-> <<"Variable not defined", name>>]

\* a set_value that binds the name where the search ends without it
set_value_creates(scopes, e, name, value) ==
  IF name \in DOMAIN scopes[e].constants
  THEN [scopes |-> scopes, exc |-> <<"Cannot modify constant", name>>]
  ELSE IF name \in DOMAIN scopes[e].variables
  THEN [scopes |-> [scopes EXCEPT ![e].variables[name] = value], exc |-> <<>>]
  ELSE IF scopes[e].parent # 0 /\ is_defined(scopes, scopes[e].parent, name)
  THEN set_value(scopes, scopes[e].parent, name, value)
  ELSE [scopes |-> define_var(scopes, e, name, value), exc |-> <<>>]

set_value(scopes, e, name, value) ==
  IF name \in DOMAIN scopes[e].constants
  THEN [scopes |-> scopes, exc |-> <<"Cannot modify constant", name>>]
  ELSE IF name \in DOMAIN scopes[e].variables
  THEN [scopes |-> [scopes EXCEPT ![e].variables[name] = value], exc |-> <<>>]
  ELSE IF scopes[e].parent # 0 /\ is_defined(scopes, scopes[e].parent, name)
  THEN set_value(scopes, scopes[e].parent, name, value)
  ELSE [scopes |-> scopes, exc |-> <<"Variable not defined", name>>]

create_child_env(scopes, e) == Append(scopes, NewScope(e))

\* the members of the four built-in objects that __init__ binds
Builtins == {"out", "rep", "now", "back"}
DictMembers(obj) ==
  CASE obj = "out" -> {"Info", "Warn", "Error"}
    [] obj = "rep" -> {"stop"}
    [] obj = "now" -> {"repeat"}
    [] obj = "back" -> {"value"}
    [] OTHER -> {"params", "body", "env"}
RootScope ==
  [variables |-> [n \in Builtins |-> DictV(n)],
   constants |-> EmptyMap, functions |-> EmptyMap, parent |-> 0]

(***************************************************************************)
(* The evaluator's state, as one record while a statement is visited.      *)
(* exc is the Python exception in flight: <<>> for none, else its text.    *)
(***************************************************************************)
Ok(st) == st.exc = <<>>
Raise(st, msg) == [st EXCEPT !.exc = msg]
Key(name) == <<name>>
Poisoned(st, name) == \E k \in 1..Len(st.error_vars_list) : st.error_vars_list[k] = Key(name)
InList(seq, x) == \E k \in 1..Len(seq) : seq[k] = x

_add_error_appends(st, msg) == [st EXCEPT !.errors = Append(@, msg)]
_add_error(st, msg) ==
  IF InList(st.errors, msg) THEN st ELSE [st EXCEPT !.errors = Append(@, msg)]

Poison(st, key) == [st EXCEPT !.error_vars_list = Append(@, key)]


R(st, val) == [st |-> st, val |-> val]

(***************************************************************************)
(* cast_type.  var_key is <<>> for no variable name, else the key under    *)
(* which the name is poisoned.                                             *)
(***************************************************************************)
PoisonIf(st, var_key) == IF var_key # <<>> THEN Poison(st, var_key) ELSE st

\* the except branch: int() or float() raised ValueError or TypeError
CastFails(st, value, type_name, var_key) ==
  R(PoisonIf(_add_error(st, <<"Cannot cast", ToStr(st.lists, value), type_name, var_key,
                              TypeName(value)>>), var_key), None)

\* a test of texts for int without the case of the leading minus sign
CanCast_unsigned(value, type_name) ==
  CASE type_name = "int" ->
         CASE TypeName(value) = "str" -> isdigit(value[2])
           [] TypeName(value) = "float" -> is_integer(value)
           [] OTHER -> TypeName(value) = "int"
    [] type_name = "float" ->
         IF TypeName(value) = "str" THEN IsFloatText(value[2]) ELSE IsNumber(value)
    [] type_name = "str" -> TRUE

\* the conversions that do not raise
CanCast(value, type_name) ==
  CASE type_name = "int" ->
         CASE TypeName(value) = "str" ->
                \/ isdigit(value[2])
                \/ (value[2] # <<>> /\ value[2][1] = "-" /\ isdigit(Tail(value[2])))
           [] TypeName(value) = "float" -> is_integer(value)
           [] OTHER -> TypeName(value) = "int"
    [] type_name = "float" ->
         IF TypeName(value) = "str" THEN IsFloatText(value[2]) ELSE IsNumber(value)
    [] type_name = "str" -> TRUE

\* int(value), float(value), str(value)
Convert(lists, value, type_name) ==
  CASE type_name = "int" ->
         CASE TypeName(value) = "str" -> IntV(IntOfStr(value[2]))
           [] TypeName(value) = "float" -> IntV(Trunc(value))
           [] OTHER -> value
    [] type_name = "float" ->
         IF TypeName(value) = "str" THEN FloatOfStr(value[2])
         ELSE FloatV(Num(value), Den(value))
    [] type_name = "str" -> StrV(ToStr(lists, value))

cast_type(st, value, type_name, var_key) ==
  IF var_key # <<>> /\ InList(st.error_vars_list, var_key) THEN R(st, None)
  ELSE IF type_name \notin {"int", "float", "str"}
  THEN R(PoisonIf(_add_error(st, <<"Unsupported type", type_name, var_key>>), var_key), None)
  ELSE IF CanCast(value, type_name) THEN R(st, Convert(st.lists, value, type_name))
  ELSE CastFails(st, value, type_name, var_key)

(***************************************************************************)
(* Python's binary operators on the values of the model.  The result is    *)
(* the value, the list heap (a list sum allocates) and the TypeError.      *)
(***************************************************************************)
RECURSIVE Repeat(_, _)
Repeat(s, n) == IF n <= 0 THEN <<>> ELSE s \o Repeat(s, n - 1)

MkNum(num, den, asFloat) == IF asFloat THEN FloatV(num, den) ELSE IntV(num)
AnyFloat(l, r) == TypeName(l) = "float" \/ TypeName(r) = "float"
B(val, lists, exc) == [val |-> val, lists |-> lists, exc |-> exc]
TypeError(op, l, r) == <<"unsupported operand type(s)", op, TypeName(l), TypeName(r)>>

BinOp(lists, op, l, r) ==
  IF op = "+" /\ (TypeName(l) = "str" \/ TypeName(r) = "str")
  THEN B(StrV(ToStr(lists, l) \o ToStr(lists, r)), lists, <<>>)
  ELSE IF IsNumber(l) /\ IsNumber(r) THEN
    CASE op = "+" -> B(MkNum(Num(l) * Den(r) + Num(r) * Den(l), Den(l) * Den(r), AnyFloat(l, r)), lists, <<>>)
      [] op = "-" -> B(MkNum(Num(l) * Den(r) - Num(r) * Den(l), Den(l) * Den(r), AnyFloat(l, r)), lists, <<>>)
      [] op = "*" -> B(MkNum(Num(l) * Num(r), Den(l) * Den(r), AnyFloat(l, r)), lists, <<>>)
      [] op = "/" -> B(IF Num(r) < 0 THEN FloatV(-(Num(l) * Den(r)), Den(l) * (-Num(r)))
                       ELSE FloatV(Num(l) * Den(r), Den(l) * Num(r)), lists, <<>>)
  ELSE IF op = "+" /\ TypeName(l) = "list" /\ TypeName(r) = "list"
  THEN B(ListV(Len(lists) + 1), Append(lists, lists[l[2]] \o lists[r[2]]), <<>>)
  ELSE IF op = "*" /\ TypeName(l) = "str" /\ TypeName(r) = "int"
  THEN B(StrV(Repeat(l[2], r[2])), lists, <<>>)
  ELSE IF op = "*" /\ TypeName(l) = "int" /\ TypeName(r) = "str"
  THEN B(StrV(Repeat(r[2], l[2])), lists, <<>>)
  ELSE IF op = "*" /\ TypeName(l) = "list" /\ TypeName(r) = "int"
  THEN B(ListV(Len(lists) + 1), Append(lists, Repeat(lists[l[2]], r[2])), <<>>)
  ELSE IF op = "*" /\ TypeName(l) = "int" /\ TypeName(r) = "list"
  THEN B(ListV(Len(lists) + 1), Append(lists, Repeat(lists[r[2]], l[2])), <<>>)
  ELSE B(None, lists, TypeError(op, l, r))

\* value == 0
IsZero(v) == IsNumber(v) /\ Num(v) = 0


(***************************************************************************)
(* Comparison of two values by visit_condition's operators.  Numbers       *)
(* compare by value across int and float, texts by code point, lists by    *)
(* content; any other ordering is Python's TypeError.                      *)
(***************************************************************************)
CodePointOrder ==
  <<" ", "'", "+", ",", "-", ".", "0", "1", "2", "3", "4", "5", "6", "7", "8", "9",
    "N", "[", "]", "a", "b", "c", "e", "n", "o", "s", "t", "x", "{", "}">>
CharRank(c) == CHOOSE k \in 1..Len(CodePointOrder) : CodePointOrder[k] = c
RECURSIVE TextLess(_, _)
TextLess(a, b) ==
  IF b = <<>> THEN FALSE
  ELSE IF a = <<>> THEN TRUE
  ELSE IF a[1] = b[1] THEN TextLess(Tail(a), Tail(b))
  ELSE CharRank(a[1]) < CharRank(b[1])

ValEq(lists, l, r) ==
  IF IsNumber(l) /\ IsNumber(r) THEN Num(l) * Den(r) = Num(r) * Den(l)
  ELSE IF TypeName(l) # TypeName(r) THEN FALSE
  ELSE IF TypeName(l) = "list" THEN lists[l[2]] = lists[r[2]]
  ELSE l = r
ValLess(l, r) ==
  IF IsNumber(l) THEN Num(l) * Den(r) < Num(r) * Den(l) ELSE TextLess(l[2], r[2])
Ordered(l, r) ==
  \/ IsNumber(l) /\ IsNumber(r)
  \/ TypeName(l) = "str" /\ TypeName(r) = "str"

(***************************************************************************)
(* The visitors.  Each takes the evaluator's state and a node and returns  *)
(* the state and the visitor's result.  With an exception in flight every  *)
(* visitor returns at once.                                                *)
(*                                                                         *)
(* Nodes:  <<"NUMBER", value>>  <<"STRING", text>>  <<"IDENT", name>>      *)
(*   <<"member_access_expr", obj, attr>>  <<"func_call", name, args>>      *)
(*   <<"math_func_call", name, args>>                                    *)
(*   <<"term", first, <<op, operand>>...>>                                 *)
(*   <<"expr", first, <<op, operand>>...>>                                 *)
(*   <<"condition", left, op, right>>  <<"conditions", conds, ops>>        *)
(*   <<"logic_op", word>>                                                  *)
(*   <<"block", statements>>                                               *)
(*   <<"var_def", type, name, <<>> or <<init>> >>                          *)
(*   <<"const_def", type, name, init>>  <<"list_def", name, elements>>     *)
(*   <<"assignment", name, value>>                                         *)
(*   <<"list_method_call", name, method, <<>> or <<expr>> >>               *)
(*   <<"list_access", name, index>>                                        *)
(*   <<"cause_stmt", conditions, if_block, <<>> or <<or_block>> >>         *)
(*   <<"again_stmt", times, "" or repeat_var, block>>  <<"rep_stop">>      *)
(*   <<"func_def", name, <<type, name>>..., block>>                        *)
(*   <<"func_call_stmt", name, args>>  <<"back_stmt", <<>> or <<expr>> >>  *)
(*   <<"output_stmt", obj, attr, args>>                                    *)
(***************************************************************************)
RECURSIVE visit(_, _)
RECURSIVE visit_args(_, _, _, _)
RECURSIVE expr_loop(_, _, _, _)
RECURSIVE block_loop(_, _, _)
RECURSIVE again_loop(_, _, _, _, _)
RECURSIVE output_args_loop(_, _, _, _)
RECURSIVE conditions_loop(_, _, _, _)

\* a visit_IDENT that does not look up whether the name was warned about
visit_IDENT_warns_again(st, node) ==
  LET var_name == node[2]
      Unassigned(s) ==
        /\ var_name \in s.defined_vars
        /\ var_name \notin s.assigned_vars
        /\ ~is_constant(s.scopes, s.env, var_name)
        /\ ~Poisoned(s, var_name)
      Warn(s, value) ==
        [s EXCEPT
           !.console = Append(@, <<"used without assignment", var_name, ToStr(s.lists, value)>>),
           !.warned_vars = @ \cup {var_name}]
      Read(s, value) == R(IF Unassigned(s) THEN Warn(s, value) ELSE s, value)
      Undefined(s) == R(IF Poisoned(s, var_name) THEN s ELSE Poison(s, Key(var_name)), None)
      Look(s) ==
        IF ~is_defined(s.scopes, s.env, var_name)
        THEN Undefined(_add_error(s, <<"Variable not defined", var_name>>))
        ELSE Read(s, get_value(s.scopes, s.env, var_name))
  IN  Look([st EXCEPT !.used_variables = @ \cup {var_name}])

visit_IDENT(st, node) ==
  LET var_name == node[2]
      Unassigned(s) ==
        /\ var_name \in s.defined_vars
        /\ var_name \notin s.assigned_vars
        /\ ~is_constant(s.scopes, s.env, var_name)
        /\ var_name \notin s.warned_vars
        /\ ~Poisoned(s, var_name)
      Warn(s, value) ==
        [s EXCEPT
           !.console = Append(@, <<"used without assignment", var_name, ToStr(s.lists, value)>>),
           !.warned_vars = @ \cup {var_name}]
      Read(s, value) == R(IF Unassigned(s) THEN Warn(s, value) ELSE s, value)
      Undefined(s) == R(IF Poisoned(s, var_name) THEN s ELSE Poison(s, Key(var_name)), None)
      Look(s) ==
        IF ~is_defined(s.scopes, s.env, var_name)
        THEN Undefined(_add_error(s, <<"Variable not defined", var_name>>))
        ELSE Read(s, get_value(s.scopes, s.env, var_name))
  IN  Look([st EXCEPT !.used_variables = @ \cup {var_name}])

\* the text a built-in object holds for its member
MemberText(obj, attr) == StrV(<<obj, ".", attr>>)

\* "attr not in obj": a key test on a dict, Python's TypeError on a number
\* or None.  (A text or a list holds no attribute name in the model.)
HasMember(value, attr) == TypeName(value) = "dict" /\ attr \in DictMembers(value[2])
MemberTestRaises(value) == TypeName(value) \in {"int", "float", "NoneType"}

visit_member_access_expr(st, node) ==
  LET obj_name == node[2]
      attr_name == node[3]
      Member(obj) ==
        IF MemberTestRaises(obj)
        THEN R(Raise(st, <<"argument of type is not iterable", TypeName(obj)>>), None)
        ELSE IF ~HasMember(obj, attr_name)
        THEN R(_add_error(st, <<"Object has no member", obj_name, attr_name>>), None)
        ELSE IF obj_name = "now" /\ attr_name = "repeat" THEN
          IF is_defined(st.scopes, st.env, "repeat")
          THEN R(st, get_value(st.scopes, st.env, "repeat"))
          ELSE R(_add_error(st, <<"'now.repeat' can only be used inside an Again loop that provides a repeat parameter">>), None)
        ELSE R(st, MemberText(obj_name, attr_name))
  IN  IF ~is_defined(st.scopes, st.env, obj_name)
      THEN R(_add_error(st, <<"Object is not defined", obj_name>>), None)
      ELSE Member(get_value(st.scopes, st.env, obj_name))

visit_args(st, args, k, acc) ==
  LET Rest(a) == visit_args(a.st, args, k + 1, Append(acc, a.val))
  IN  IF ~Ok(st) THEN R(st, acc)
      ELSE IF k > Len(args) THEN R(st, acc)
      ELSE Rest(visit(st, args[k]))

\* param_types is a dict by name: of two parameters of one name the later
\* type counts for both
ParamType(params, k) ==
  LET last == CHOOSE j \in 1..Len(params) :
                /\ params[j][2] = params[k][2]
                /\ \A i \in (j + 1)..Len(params) : params[i][2] # params[k][2]
  IN  params[last][1]

ArgKey(func_name, k) == <<func_name, "argument", k>>

RECURSIVE cast_args(_, _, _, _, _, _)
cast_args(st, func_name, params, args, k, acc) ==
  LET Cast(c, param_type) ==
        IF c.val = None
        THEN [st |-> _add_error(c.st, <<"Argument cannot be cast", k, func_name, param_type>>),
              val |-> acc, failed |-> TRUE]
        ELSE cast_args(c.st, func_name, params, args, k + 1, Append(acc, c.val))
      Arg(param_type) ==
        Cast(cast_type(st, args[k], param_type, ArgKey(func_name, k)), param_type)
  IN  IF k > Len(args) \/ k > Len(params) THEN [st |-> st, val |-> acc, failed |-> FALSE]
      ELSE Arg(ParamType(params, k))

RECURSIVE BindParams(_, _, _, _, _)
BindParams(scopes, func_env, params, casted_args, k) ==
  IF k > Len(params) \/ k > Len(casted_args) THEN scopes
  ELSE BindParams(define_var(scopes, func_env, params[k][2], casted_args[k]),
                  func_env, params, casted_args, k + 1)

\* a test that lets a call with spare arguments through
arity_at_least(args, expected_params) == Len(args) >= Len(expected_params)
\* len(args) == len(expected_params)
arity_matches(args, expected_params) == Len(args) = Len(expected_params)

\* visit_func_call from the arity test on
\* after the body, on return and on an exception alike: the caller's
\* environment, pending return value and should_return are put back
restore_env_only(old, st) == [st EXCEPT !.env = old.env]
\* a call that puts the caller's environment back only when the body returns
restore_on_return_only(old, st) ==
  [st EXCEPT
     !.env = IF Ok(st) THEN old.env ELSE @,
     !.return_value = old.return_value,
     !.should_return = old.should_return]
restore(old, st) ==
  [st EXCEPT
     !.env = old.env,
     !.return_value = old.return_value,
     !.should_return = old.should_return]

\* a call whose scope is a child of the caller's environment
closure_is_caller(st, func_info) == st.env
\* func_info['env']: the environment the function was defined in
closure(st, func_info) == func_info.env

call_function(st, func_name, func_info, args) ==
  LET Enter(c, casted_args) ==
        [c EXCEPT
           !.scopes = BindParams(create_child_env(@, closure(c, func_info)), Len(@) + 1,
                                 func_info.params, casted_args, 1),
           !.env = Len(c.scopes) + 1,
           !.return_value = None,
           !.should_return = FALSE]
      Leave(old, b) ==
        R(restore(old, b.st), IF Ok(b.st) THEN b.st.return_value ELSE None)
      Body(old, casted_args) == Leave(old, visit(Enter(old, casted_args), func_info.body))
      Call(c) == IF c.failed THEN R(c.st, None) ELSE Body(c.st, c.val)
  IN  IF ~arity_matches(args, func_info.params)
      THEN R(_add_error(st, <<"Function expects arguments", func_name, Len(func_info.params), Len(args)>>), None)
      ELSE Call(cast_args(st, func_name, func_info.params, args, 1, <<>>))

visit_func_call(st, node) ==
  LET func_name == node[2]
      Args(a, func_info) ==
        IF ~Ok(a.st) THEN R(a.st, None)
        ELSE call_function(a.st, func_name, func_info, a.val)
      Find(s) ==
        IF Poisoned(s, func_name) THEN R(s, None)
        ELSE IF ~is_function(s.scopes, s.env, func_name)
        THEN R(Poison(_add_error(s, <<"Function is not defined", func_name>>), Key(func_name)), None)
        ELSE Args(visit_args(s, node[3], 1, <<>>), get_func(s.scopes, s.env, func_name))
  IN  Find([st EXCEPT !.used_variables = @ \cup {func_name}])

\* a back.value that hands over its value and lets the block go on
visit_back_stmt_goes_on(st, node) ==
  IF node[2] = <<>> THEN R([st EXCEPT !.return_value = None], None)
  ELSE R([visit(st, node[2][1]).st EXCEPT !.return_value = visit(st, node[2][1]).val], None)

visit_back_stmt(st, node) ==
  LET Value(r) ==
        IF ~Ok(r.st) THEN R(r.st, None)
        ELSE R([r.st EXCEPT !.return_value = r.val, !.should_return = TRUE], None)
  IN  IF node[2] = <<>>
      THEN R([st EXCEPT !.return_value = None, !.should_return = TRUE], None)
      ELSE Value(visit(st, node[2][1]))

\* a block that goes on after rep.stop
block_loop_ignores_break(st, stmts, k) ==
  IF ~Ok(st) \/ k > Len(stmts) THEN st
  ELSE IF st.should_return THEN st
  ELSE block_loop(visit(st, stmts[k]).st, stmts, k + 1)

block_loop(st, stmts, k) ==
  IF ~Ok(st) \/ k > Len(stmts) THEN st
  ELSE IF st.should_return \/ st.should_break THEN st
  ELSE block_loop(visit(st, stmts[k]).st, stmts, k + 1)

visit_block(st, node) == R(block_loop(st, node[2], 1), None)

\* the divisor is 0: the error is recorded and the term or expression is 0
division_by_zero_raises(st) == R(Raise(st, <<"division by zero">>), None)
division_by_zero(st) == R(_add_error(st, <<"Division by zero">>), IntV(0))

expr_loop(st, left, rest, k) ==
  LET Apply(s, b) ==
        IF b.exc # <<>> THEN R(Raise(s, b.exc), None)
        ELSE expr_loop([s EXCEPT !.lists = b.lists], b.val, rest, k + 1)
      Operand(r, op) ==
        IF ~Ok(r.st) THEN R(r.st, None)
        ELSE IF op = "/" /\ IsZero(r.val)
        THEN division_by_zero(r.st)
        ELSE Apply(r.st, BinOp(r.st.lists, op, left, r.val))
  IN  IF k > Len(rest) THEN R(st, left)
      ELSE Operand(visit(st, rest[k][2]), rest[k][1])

visit_expr(st, node) ==
  LET Rest(first) ==
        IF ~Ok(first.st) THEN R(first.st, None)
        ELSE expr_loop(first.st, first.val, node[3], 1)
  IN  Rest(visit(st, node[2]))

\* visit_term runs visit_expr's loop over the operators of a term, * and /
visit_term(st, node) == visit_expr(st, node)

visit_condition(st, node) ==
  LET op == node[3]
      Compare(s, left, right) ==
        IF ~Ok(s) THEN R(s, FALSE)
        ELSE IF op = "?" THEN R(s, ValEq(s.lists, left, right))
        ELSE IF op = "!" THEN R(s, ~ValEq(s.lists, left, right))
        ELSE IF ~Ordered(left, right)
        THEN R(_add_error(s, <<"Comparison failed", TypeName(left), TypeName(right), op>>), FALSE)
        ELSE IF op = ">" THEN R(s, ValLess(right, left))
        ELSE IF op = "<" THEN R(s, ValLess(left, right))
        ELSE IF op = ">=" THEN R(s, ~ValLess(left, right))
        ELSE R(s, ~ValLess(right, left))
      Right(l, r) == Compare(r.st, l.val, r.val)
      Left(l) == Right(l, visit(l.st, node[4]))
  IN  Left(visit(st, node[2]))

\* visit_logic_op reads the source line numbered current_line_num: st.line
\* says whether that line holds " and " and whether it holds " or ".  The
\* grammar writes the operators as unnamed literals ("and"i | "or"i), which
\* the parser leaves out of the tree: a logic_op node has no children, and
\* with neither word on the line the result is the final 'and'.  node[2] is
\* the word of the source text.
visit_logic_op(st, node) ==
  IF st.line[1] THEN "and"
  ELSE IF st.line[2] THEN "or"
  ELSE "and"

\* every condition is visited before any operator is applied
conditions_loop(st, conds, k, acc) ==
  LET Rest(c) == conditions_loop(c.st, conds, k + 1, Append(acc, c.val))
  IN  IF ~Ok(st) \/ k > Len(conds) THEN R(st, acc)
      ELSE Rest(visit(st, conds[k]))

RECURSIVE FoldLogic(_, _, _, _)
FoldLogic(results, logic_ops, k, final_result) ==
  LET Step(next) ==
        IF logic_ops[k] = "and" /\ ~next THEN next
        ELSE IF logic_ops[k] = "or" /\ next THEN next
        ELSE FoldLogic(results, logic_ops, k + 1, next)
  IN  IF k > Len(logic_ops) THEN final_result
      ELSE Step(IF logic_ops[k] = "and" THEN final_result /\ results[k + 1]
                ELSE final_result \/ results[k + 1])

visit_conditions(st, node) ==
  LET logic_ops == [k \in 1..Len(node[3]) |-> visit_logic_op(st, node[3][k])]
      Fold(c) ==
        IF ~Ok(c.st) THEN R(c.st, FALSE)
        ELSE R(c.st, FoldLogic(c.val, logic_ops, 1, c.val[1]))
  IN  IF Len(node[2]) = 1 THEN visit(st, node[2][1])
      ELSE Fold(conditions_loop(st, node[2], 1, <<>>))

\* a Cause that goes on to its else-block after the if-block
visit_cause_stmt_runs_both(st, node) ==
  LET Else(b) == IF Ok(b.st) /\ node[4] # <<>> THEN visit(b.st, node[4][1]) ELSE b
      Branch(c) ==
        IF ~Ok(c.st) THEN R(c.st, None)
        ELSE Else(IF c.val THEN visit(c.st, node[3]) ELSE R(c.st, None))
  IN  Branch(visit(st, node[2]))

visit_cause_stmt(st, node) ==
  LET Branch(c) ==
        IF ~Ok(c.st) THEN R(c.st, None)
        ELSE IF c.val THEN visit(c.st, node[3])
        ELSE IF node[4] # <<>> THEN visit(c.st, node[4][1])
        ELSE R(c.st, None)
  IN  Branch(visit(st, node[2]))

\* a count rounded up to the next whole number
range_rounded_up(times) == IF Den(times) = 1 THEN Trunc(times) ELSE Trunc(times) + 1
\* range(int(times)): the number of iterations
range_int(times) == Trunc(times)

again_loop(st, i, n, repeat_var, block) ==
  LET Bind(s) == IF repeat_var # ""
                 THEN [s EXCEPT !.scopes = define_var(@, s.env, repeat_var, IntV(i + 1))]
                 ELSE s
      After(b) == IF ~Ok(b) \/ b.should_break THEN b
                  ELSE again_loop(b, i + 1, n, repeat_var, block)
  IN  IF ~Ok(st) \/ i >= n THEN st
      ELSE IF st.should_break THEN st
      ELSE After(visit(Bind(st), block).st)

\* a loop that leaves should_break as it is when it ends
visit_again_stmt_keeps_break(st, node) ==
  LET repeat_var == node[3]
      Pop(l) == IF repeat_var # "" /\ is_defined(l.scopes, l.env, repeat_var)
                THEN [l EXCEPT !.scopes[l.env].variables = Without(@, repeat_var)]
                ELSE l
      Done(l) == IF ~Ok(l) THEN R(l, None) ELSE R(Pop(l), None)
      Loop(s, times) ==
        IF ~Ok(s) THEN R(s, None)
        ELSE IF ~IsNumber(times) \/ Num(times) < 0
        THEN R(_add_error(s, <<"Loop times must be a non-negative number">>), None)
        ELSE Done(again_loop([s EXCEPT !.should_break = FALSE], 0, range_int(times), repeat_var, node[4]))
      Times(t) == Loop(t.st, t.val)
  IN  Times(visit(st, node[2]))

visit_again_stmt(st, node) ==
  LET repeat_var == node[3]
      Pop(l) == IF repeat_var # "" /\ is_defined(l.scopes, l.env, repeat_var)
                THEN [l EXCEPT !.scopes[l.env].variables = Without(@, repeat_var),
                               !.should_break = FALSE]
                ELSE [l EXCEPT !.should_break = FALSE]
      Done(l) == IF ~Ok(l) THEN R(l, None) ELSE R(Pop(l), None)
      Loop(s, times) ==
        IF ~Ok(s) THEN R(s, None)
        ELSE IF ~IsNumber(times) \/ Num(times) < 0
        THEN R(_add_error(s, <<"Loop times must be a non-negative number">>), None)
        ELSE Done(again_loop([s EXCEPT !.should_break = FALSE], 0, range_int(times), repeat_var, node[4]))
      Times(t) == Loop(t.st, t.val)
  IN  Times(visit(st, node[2]))

visit_rep_stop(st, node) == R([st EXCEPT !.should_break = TRUE], None)

\* the value a definition binds: a number keeps its own type, any other
\* value is cast into the declared type
CastInit(st, value, type_name, name) ==
  cast_type(st, value, IF IsNumber(value) THEN TypeName(value) ELSE type_name, Key(name))

DefaultValue(type_name) ==
  CASE type_name = "int" -> IntV(0)
    [] type_name = "float" -> FloatV(0, 1)
    [] type_name = "str" -> StrV(<<>>)

\* The type of a definition, as visit_var_def and visit_const_def read it
\* from the annotation's tree: children[0].value if the tree has children,
\* else 'int'.  The grammar writes the three type words as unnamed literals
\* ("int" -> type_int, ...), which the parser leaves out of the tree, so the
\* tree of every annotation has no children.
type_name_of(annotation) == "int"

visit_var_def(st, node) ==
  LET type_name == type_name_of(node[2])
      var_name == node[3]
      Define(c) ==
        IF c.val # None
        THEN R([c.st EXCEPT !.scopes = define_var(@, c.st.env, var_name, c.val),
                            !.assigned_vars = @ \cup {var_name},
                            !.defined_vars = @ \cup {var_name}], None)
        ELSE R(c.st, None)
      Value(v) ==
        IF ~Ok(v.st) THEN R(v.st, None)
        ELSE Define(CastInit(v.st, v.val, type_name, var_name))
  IN  IF Poisoned(st, var_name) THEN R(st, None)
      ELSE IF is_defined(st.scopes, st.env, var_name)
      THEN R(Poison(_add_error(st, <<"Variable is already defined", var_name>>), Key(var_name)), None)
      ELSE IF node[4] # <<>> THEN Value(visit(st, node[4][1]))
      ELSE R([st EXCEPT !.scopes = define_var(@, st.env, var_name, DefaultValue(type_name)),
                        !.defined_vars = @ \cup {var_name}], None)

visit_const_def(st, node) ==
  LET type_name == type_name_of(node[2])
      const_name == node[3]
      Define(c) ==
        IF c.val # None
        THEN R([c.st EXCEPT !.scopes = define_const(@, c.st.env, const_name, c.val),
                            !.assigned_vars = @ \cup {const_name},
                            !.defined_vars = @ \cup {const_name}], None)
        ELSE R(c.st, None)
      Value(v) ==
        IF ~Ok(v.st) THEN R(v.st, None)
        ELSE Define(CastInit(v.st, v.val, type_name, const_name))
  IN  IF Poisoned(st, const_name) THEN R(st, None)
      ELSE IF is_defined(st.scopes, st.env, const_name)
      THEN R(Poison(_add_error(st, <<"Constant is already defined", const_name>>), Key(const_name)), None)
      ELSE Value(visit(st, node[4]))

visit_list_literal(st, node) ==
  LET Alloc(a) ==
        IF ~Ok(a.st) THEN R(a.st, None)
        ELSE R([a.st EXCEPT !.lists = Append(@, a.val)], ListV(Len(a.st.lists) + 1))
  IN  Alloc(visit_args(st, node[2], 1, <<>>))

visit_list_def(st, node) ==
  LET list_name == node[2]
      Define(v) ==
        IF ~Ok(v.st) THEN R(v.st, None)
        ELSE R([v.st EXCEPT !.scopes = define_var(@, v.st.env, list_name, v.val),
                            !.defined_vars = @ \cup {list_name},
                            !.assigned_vars = @ \cup {list_name}], None)
  IN  IF Poisoned(st, list_name) THEN R(st, None)
      ELSE IF is_defined(st.scopes, st.env, list_name)
      THEN R(Poison(_add_error(st, <<"List is already defined", list_name>>), Key(list_name)), None)
      ELSE Define(visit(st, <<"list_literal", node[3]>>))

\* visit_list_method_call takes the method from the text of the source line
\* numbered current_line_num, not from the tree: st.line says whether that
\* line holds ".add(" and whether it holds ".clear(".  node[3] is the word
\* of the source text and node[4] the argument, <<>> or <<expr>>.  The list
\* object is changed before set_value is called.
visit_list_method_call(st, node) ==
  LET list_name == node[2]
      method_name == IF st.line[3] THEN "add" ELSE IF st.line[4] THEN "clear" ELSE ""
      Store(s, w) ==
        IF w.exc # <<>> THEN R(Raise(s, w.exc), None)
        ELSE R([s EXCEPT !.scopes = w.scopes,
                         !.assigned_vars = @ \cup {list_name}], None)
      Added(e, current_list) ==
        IF ~Ok(e.st) THEN R(e.st, None)
        ELSE Store([e.st EXCEPT !.lists[current_list[2]] = Append(@, e.val)],
                   set_value(e.st.scopes, e.st.env, list_name, current_list))
      Method(current_list) ==
        IF TypeName(current_list) # "list"
        THEN R(_add_error(st, <<"is not a list", list_name>>), None)
        ELSE IF method_name = "add"
        THEN IF node[4] = <<>>
             THEN R(_add_error(st, <<"List.add method requires an element to add">>), None)
             ELSE Added(visit(st, node[4][1]), current_list)
        ELSE IF node[4] # <<>>
        THEN R(_add_error(st, <<"List.clear method should not have arguments">>), None)
        ELSE Store([st EXCEPT !.lists[current_list[2]] = <<>>],
                   set_value(st.scopes, st.env, list_name, current_list))
  IN  IF method_name = ""
      THEN R(_add_error(st, <<"Invalid list method call: could not extract method name">>), None)
      ELSE IF Poisoned(st, list_name) THEN R(st, None)
      ELSE IF ~is_defined(st.scopes, st.env, list_name)
      THEN R(Poison(_add_error(st, <<"List is not defined", list_name>>), Key(list_name)), None)
      ELSE Method(get_value(st.scopes, st.env, list_name))

\* node[3] is the index expression; the first element has index 0
visit_list_access(st, node) ==
  LET list_name == node[2]
      Element(s, current_list, index) ==
        IF TypeName(current_list) # "list"
        THEN R(_add_error(s, <<"is not a list", list_name>>), None)
        ELSE IF TypeName(index) # "int"
        THEN R(_add_error(s, <<"List index must be an integer", TypeName(index)>>), None)
        ELSE IF index[2] < 0 \/ index[2] >= Len(s.lists[current_list[2]])
        THEN R(_add_error(s, <<"List index out of range", index[2],
                               Len(s.lists[current_list[2]])>>), None)
        ELSE R(s, s.lists[current_list[2]][index[2] + 1])
      Index(x) ==
        IF ~Ok(x.st) THEN R(x.st, None)
        ELSE IF Poisoned(x.st, list_name) THEN R(x.st, None)
        ELSE IF ~is_defined(x.st.scopes, x.st.env, list_name)
        THEN R(Poison(_add_error(x.st, <<"List is not defined", list_name>>), Key(list_name)), None)
        ELSE Element(x.st, get_value(x.st.scopes, x.st.env, list_name), x.val)
  IN  Index(visit(st, node[3]))

\* an assignment that binds a new name to a copy of the list, not to the list
visit_assignment_copies(st, node) ==
  LET var_name == node[2]
      Copy(s, value) ==
        IF TypeName(value) = "list" THEN ListV(Len(s.lists) + 1) ELSE value
      Store(s, w) ==
        IF w.exc # <<>> THEN R(Raise(s, w.exc), None)
        ELSE R([s EXCEPT !.scopes = w.scopes,
                         !.assigned_vars = @ \cup {var_name}], None)
      Casted(c) ==
        IF c.val = None THEN R(c.st, None)
        ELSE Store(c.st, set_value(c.st.scopes, c.st.env, var_name, c.val))
      Update(s, value, current_value) ==
        IF current_value = None
        THEN R(_add_error(s, <<"Variable has no value", var_name>>), None)
        ELSE Casted(cast_type(s, value, TypeName(current_value), Key(var_name)))
      Target(s, value) ==
        IF ~Ok(s) THEN R(s, None)
        ELSE IF Poisoned(s, var_name) THEN R(s, None)
        ELSE IF ~is_defined(s.scopes, s.env, var_name)
        THEN R([s EXCEPT !.scopes = define_var(@, s.env, var_name, Copy(s, value)),
                         !.lists = IF TypeName(value) = "list" THEN Append(@, @[value[2]]) ELSE @,
                         !.defined_vars = @ \cup {var_name},
                         !.assigned_vars = @ \cup {var_name}], None)
        ELSE IF is_constant(s.scopes, s.env, var_name)
        THEN R(_add_error(s, <<"Cannot assign values to constants afterward", var_name>>), None)
        ELSE Update(s, value, get_value(s.scopes, s.env, var_name))
      Value(v) == Target(v.st, v.val)
  IN  Value(visit(st, node[3]))

visit_assignment(st, node) ==
  LET var_name == node[2]
      Store(s, w) ==
        IF w.exc # <<>> THEN R(Raise(s, w.exc), None)
        ELSE R([s EXCEPT !.scopes = w.scopes,
                         !.assigned_vars = @ \cup {var_name}], None)
      Casted(c) ==
        IF c.val = None THEN R(c.st, None)
        ELSE Store(c.st, set_value(c.st.scopes, c.st.env, var_name, c.val))
      Update(s, value, current_value) ==
        IF current_value = None
        THEN R(_add_error(s, <<"Variable has no value", var_name>>), None)
        ELSE Casted(cast_type(s, value, TypeName(current_value), Key(var_name)))
      Target(s, value) ==
        IF ~Ok(s) THEN R(s, None)
        ELSE IF Poisoned(s, var_name) THEN R(s, None)
        ELSE IF ~is_defined(s.scopes, s.env, var_name)
        THEN R([s EXCEPT !.scopes = define_var(@, s.env, var_name, value),
                         !.defined_vars = @ \cup {var_name},
                         !.assigned_vars = @ \cup {var_name}], None)
        ELSE IF is_constant(s.scopes, s.env, var_name)
        THEN R(_add_error(s, <<"Cannot assign values to constants afterward", var_name>>), None)
        ELSE Update(s, value, get_value(s.scopes, s.env, var_name))
      Value(v) == Target(v.st, v.val)
  IN  Value(visit(st, node[3]))

visit_func_def(st, node) ==
  LET func_name == node[2]
  IN
  IF Poisoned(st, func_name) THEN R(st, None)
  ELSE IF is_defined(st.scopes, st.env, func_name)
  THEN R(Poison(_add_error(st, <<"Function is already defined", func_name>>), Key(func_name)), None)
  ELSE R([st EXCEPT !.scopes = define_func(@, st.env, func_name, node[3], node[4], st.env),
                    !.defined_vars = @ \cup {func_name}], None)

(***************************************************************************)
(* The math functions.  Roots and powers are modelled where Python's float *)
(* result is exact: square roots of squares of rationals, cube roots of    *)
(* the listed values, powers with a whole exponent.  A result with no      *)
(* fractional part is handed back as an int.                               *)
(***************************************************************************)
RECURSIVE IPow(_, _)
IPow(b, e) == IF e = 0 THEN 1 ELSE b * IPow(b, e - 1)

IsSquare(n) == \E r \in 0..n : r * r = n
ISqrt(n) == CHOOSE r \in 0..n : r * r = n

\* int(result) if result.is_integer() else result
IntIfWhole(num, den) == IF FloatV(num, den)[3] = 1 THEN IntV(FloatV(num, den)[2]) ELSE FloatV(num, den)

\* math.sqrt(value) of a value that is not negative
sqrt(value) ==
  CASE IsSquare(Num(value)) /\ IsSquare(Den(value)) ->
         IntIfWhole(ISqrt(Num(value)), ISqrt(Den(value)))

\* value ** (1/3)
cube_root(value) ==
  CASE value \in {IntV(0), IntV(1), IntV(8), IntV(27)} ->
         IntV(CHOOSE r \in 0..3 : r * r * r = Num(value))

IsLess0(v) == Num(v) < 0
NotOrdered(value) == <<"'<' not supported between instances", TypeName(value), "int">>

\* base ** exponent of two numbers, then the conversion of a whole float
Power(st, base, exponent) ==
  CASE Den(exponent) = 1 /\ Num(exponent) >= 0 ->
         R(st, IntIfWhole(IPow(Num(base), Num(exponent)), IPow(Den(base), Num(exponent))))
    [] Den(exponent) = 1 /\ Num(exponent) < 0 /\ Num(base) = 0 ->
         R(_add_error(st, <<"Power calculation error",
                           "0.0 cannot be raised to a negative power">>), IntV(0))
    [] Den(exponent) = 1 /\ Num(exponent) < 0 /\ Num(base) > 0 ->
         R(st, IntIfWhole(IPow(Den(base), -Num(exponent)), IPow(Num(base), -Num(exponent))))
    [] exponent = FloatV(1, 2) /\ Num(base) >= 0 -> R(st, sqrt(base))

_handle_squFor(st, node) ==
  LET Result(s, base, exponent) ==
        IF base = None \/ exponent = None
        THEN R(_add_error(s, <<"squFor function arguments cannot be None">>), IntV(0))
        ELSE IF ~IsNumber(base) \/ ~IsNumber(exponent)
        THEN R(_add_error(s, <<"squFor function requires numeric arguments">>), IntV(0))
        ELSE Power(s, base, exponent)
      Exponent(b, e) == IF ~Ok(e.st) THEN R(e.st, None) ELSE Result(e.st, b.val, e.val)
      Base(b) == IF ~Ok(b.st) THEN R(b.st, None) ELSE Exponent(b, visit(b.st, node[3][2]))
  IN  IF Len(node[3]) < 2
      THEN R(_add_error(st, <<"squFor function requires two arguments: base and exponent">>), IntV(0))
      ELSE Base(visit(st, node[3][1]))

\* the square root of value, for rootFor(value, 2) and d.root(value)
square_root(st, value) ==
  IF ~IsNumber(value) THEN R(Raise(st, NotOrdered(value)), None)
  ELSE IF IsLess0(value)
  THEN R(_add_error(st, <<"Cannot calculate square root of negative number">>), IntV(0))
  ELSE R(st, sqrt(value))

third_root(st, value) ==
  IF ~IsNumber(value)
  THEN R(Raise(st, <<"unsupported operand type(s)", "**", TypeName(value), "float">>), None)
  ELSE R(st, cube_root(value))

_handle_rootFor(st, node) ==
  LET Root(s, value, root_type) ==
        IF Num(root_type) = 2 * Den(root_type) THEN square_root(s, value)
        ELSE IF Num(root_type) = 3 * Den(root_type) THEN third_root(s, value)
        ELSE R(_add_error(s, <<"Unsupported root type", ToStr(s.lists, root_type)>>), IntV(0))
      Kind(s, value, root_type) ==
        IF value = None \/ root_type = None
        THEN R(_add_error(s, <<"rootFor function arguments cannot be None">>), IntV(0))
        ELSE IF IsNumber(root_type) THEN Root(s, value, root_type)
        ELSE IF TypeName(root_type) = "str" /\ isdigit(FloatBody(root_type[2]))
        THEN Root(s, value, IntV(IntOfStr(root_type[2])))
        ELSE R(_add_error(s, <<"Root type must be a number", ToStr(s.lists, root_type)>>), IntV(0))
      Type(v, t) == IF ~Ok(t.st) THEN R(t.st, None) ELSE Kind(t.st, v.val, t.val)
      Value(v) == IF ~Ok(v.st) THEN R(v.st, None) ELSE Type(v, visit(v.st, node[3][2]))
  IN  IF Len(node[3]) < 2
      THEN R(_add_error(st, <<"rootFor function requires two arguments: value and root_type">>), IntV(0))
      ELSE Value(visit(st, node[3][1]))

_handle_d_root(st, node) ==
  LET Value(v) ==
        IF ~Ok(v.st) THEN R(v.st, None)
        ELSE IF v.val = None
        THEN R(_add_error(v.st, <<"d.root function argument cannot be None">>), IntV(0))
        ELSE square_root(v.st, v.val)
  IN  IF Len(node[3]) < 1
      THEN R(_add_error(st, <<"d.root function requires one argument">>), IntV(0))
      ELSE Value(visit(st, node[3][1]))

_handle_t_root(st, node) ==
  LET Value(v) ==
        IF ~Ok(v.st) THEN R(v.st, None)
        ELSE IF v.val = None
        THEN R(_add_error(v.st, <<"t.root function argument cannot be None">>), IntV(0))
        ELSE third_root(v.st, v.val)
  IN  IF Len(node[3]) < 1
      THEN R(_add_error(st, <<"t.root function requires one argument">>), IntV(0))
      ELSE Value(visit(st, node[3][1]))

visit_math_func_call(st, node) ==
  LET Handle(s) ==
        CASE node[2] = "squFor" -> _handle_squFor(s, node)
          [] node[2] = "rootFor" -> _handle_rootFor(s, node)
          [] node[2] = "d.root" -> _handle_d_root(s, node)
          [] node[2] = "t.root" -> _handle_t_root(s, node)
          [] OTHER -> visit_func_call(s, node)
  IN  Handle([st EXCEPT !.used_variables = @ \cup {node[2]}])

\* visit_member_access: the receiver of an output statement, "" on an error
visit_member_access(st, obj_name, attr_name) ==
  LET Member(obj) ==
        IF MemberTestRaises(obj)
        THEN R(Raise(st, <<"argument of type is not iterable", TypeName(obj)>>), "")
        ELSE IF ~HasMember(obj, attr_name)
        THEN R(_add_error(st, <<"Object has no member", obj_name, attr_name>>), "")
        ELSE R(st, "member")
  IN  IF ~is_defined(st.scopes, st.env, obj_name)
      THEN R(_add_error(st, <<"Object is not defined", obj_name>>), "")
      ELSE Member(get_value(st.scopes, st.env, obj_name))

output_args_loop(st, args, k, msg_parts) ==
  LET Arg(a) ==
        IF ~Ok(a.st) THEN [st |-> a.st, val |-> msg_parts, failed |-> TRUE]
        ELSE IF a.val = None
        THEN [st |-> _add_error(a.st, <<"Invalid argument in output function", k>>),
              val |-> msg_parts, failed |-> TRUE]
        ELSE output_args_loop(a.st, args, k + 1, msg_parts \o ToStr(a.st.lists, a.val))
  IN  IF k > Len(args) THEN [st |-> st, val |-> msg_parts, failed |-> FALSE]
      ELSE Arg(visit(st, args[k]))

\* an output statement that sets has_output before it looks at its arguments
visit_output_stmt_flags_first(st, node) ==
  LET Emit(a) ==
        IF a.failed THEN R([a.st EXCEPT !.has_output = Ok(a.st)], None)
        ELSE R([a.st EXCEPT !.has_output = TRUE,
                            !.console = Append(@, <<node[3], a.val>>)], None)
      Receiver(m) ==
        IF ~Ok(m.st) THEN R(m.st, None)
        ELSE IF m.val = ""
        THEN R(_add_error(m.st, <<"Invalid member access">>), None)
        ELSE IF ~(node[2] = "out" /\ node[3] \in {"Info", "Warn", "Error"})
        THEN R(_add_error(m.st, <<"Invalid output function", node[2], node[3]>>), None)
        ELSE Emit(output_args_loop(m.st, node[4], 1, <<>>))
  IN  Receiver(visit_member_access(st, node[2], node[3]))

visit_output_stmt(st, node) ==
  LET Emit(a) ==
        IF a.failed THEN R(a.st, None)
        ELSE R([a.st EXCEPT !.has_output = TRUE,
                            !.console = Append(@, <<node[3], a.val>>)], None)
      Receiver(m) ==
        IF ~Ok(m.st) THEN R(m.st, None)
        ELSE IF m.val = ""
        THEN R(_add_error(m.st, <<"Invalid member access">>), None)
        ELSE IF ~(node[2] = "out" /\ node[3] \in {"Info", "Warn", "Error"})
        THEN R(_add_error(m.st, <<"Invalid output function", node[2], node[3]>>), None)
        ELSE Emit(output_args_loop(m.st, node[4], 1, <<>>))
  IN  Receiver(visit_member_access(st, node[2], node[3]))

visit(st, node) ==
  IF ~Ok(st) THEN R(st, None)
  ELSE
    CASE node[1] = "NUMBER" -> R(st, node[2])
      [] node[1] = "STRING" -> R(st, StrV(node[2]))
      [] node[1] = "IDENT" -> visit_IDENT(st, node)
      [] node[1] = "member_access_expr" -> visit_member_access_expr(st, node)
      [] node[1] = "func_call" -> visit_func_call(st, node)
      [] node[1] = "math_func_call" -> visit_math_func_call(st, node)
      [] node[1] = "expr" -> visit_expr(st, node)
      [] node[1] = "term" -> visit_term(st, node)
      [] node[1] = "list_literal" -> visit_list_literal(st, node)
      [] node[1] = "condition" -> visit_condition(st, node)
      [] node[1] = "conditions" -> visit_conditions(st, node)
      [] node[1] = "block" -> visit_block(st, node)
      [] node[1] = "var_def" -> visit_var_def(st, node)
      [] node[1] = "const_def" -> visit_const_def(st, node)
      [] node[1] = "list_def" -> visit_list_def(st, node)
      [] node[1] = "list_method_call" -> visit_list_method_call(st, node)
      [] node[1] = "list_access" -> visit_list_access(st, node)
      [] node[1] = "assignment" -> visit_assignment(st, node)
      [] node[1] = "cause_stmt" -> visit_cause_stmt(st, node)
      [] node[1] = "again_stmt" -> visit_again_stmt(st, node)
      [] node[1] = "rep_stop" -> visit_rep_stop(st, node)
      [] node[1] = "func_def" -> visit_func_def(st, node)
      [] node[1] = "func_call_stmt" -> visit_func_call(st, node)
      [] node[1] = "back_stmt" -> visit_back_stmt(st, node)
      [] node[1] = "output_stmt" -> visit_output_stmt(st, node)


(***************************************************************************)
(* collect_defined_vars: the names a program defines anywhere in its text. *)
(***************************************************************************)
RECURSIVE collect_defined_vars(_)
CollectAll(stmts) == UNION {collect_defined_vars(stmts[k]) : k \in 1..Len(stmts)}
collect_defined_vars(node) ==
  CASE node[1] \in {"var_def", "const_def"} -> {node[3]}
    [] node[1] \in {"list_def", "assignment"} -> {node[2]}
    [] node[1] = "func_def" -> {node[2]} \cup CollectAll(node[4][2])
    [] node[1] = "again_stmt" -> CollectAll(node[4][2])
    [] node[1] = "cause_stmt" ->
         CollectAll(node[3][2]) \cup (IF node[4] = <<>> THEN {} ELSE CollectAll(node[4][1][2]))
    [] OTHER -> {}

(***************************************************************************)
(* The state between two top-level statements.                             *)
(***************************************************************************)
VARIABLES
  scopes,           \* the environments alive; scopes[1] is the root
  env,              \* RuntimeChecker.env: the current environment
  lists,            \* the list objects
  errors,           \* RuntimeChecker.errors
  error_vars_list,  \* the poisoned names
  used_variables, defined_vars, assigned_vars, warned_vars,
  has_output, should_break, should_return, return_value,
  console,          \* what the last statement printed, in order
  stmt,             \* the top-level statement just visited
  i,                \* the number of top-level statements visited
  pc,               \* where the run stands: in main before the pre-check
                    \* ("main"), in execute before the parse ("execute"),
                    \* in execute's loop over the statements
                    \* ("loop"), past check_unused_vars ("checked"), in
                    \* execute's outer except clause, the loop left
                    \* ("aborted"), in main with the evaluator skipped
                    \* ("skipped"), or past main's final report ("done")
  source,           \* main: the lines of the source text
  syntax_errors,    \* main: what check_syntax returned
  report            \* main: the final line it prints

vars == <<scopes, env, lists, errors, error_vars_list, used_variables, defined_vars,
          assigned_vars, warned_vars, has_output, should_break, should_return,
          return_value, console, stmt, i, pc, source, syntax_errors, report>>

main_vars == <<source, syntax_errors, report>>

\* RuntimeChecker.__init__, then collect_defined_vars over a program whose
\* text defines the names program_names
Constructed(program_names) ==
  /\ scopes = <<RootScope>>
  /\ env = 1
  /\ lists = <<>>
  /\ errors = <<>>
  /\ error_vars_list = <<>>
  /\ used_variables = {}
  /\ defined_vars \in SUBSET program_names
  /\ assigned_vars = {}
  /\ warned_vars = {}
  /\ has_output = FALSE
  /\ should_break = FALSE
  /\ should_return = FALSE
  /\ return_value = None
  /\ console = <<>>
  /\ stmt = <<"start">>
  /\ i = 0

\* the evaluator on its own, as main starts it: execute is in its loop
InitWith(program_names) ==
  /\ Constructed(program_names)
  /\ pc = "loop"
  /\ source = <<>>
  /\ syntax_errors = <<>>
  /\ report = <<>>

Cur(line) ==
  [scopes |-> scopes, env |-> env, lists |-> lists, errors |-> errors,
   error_vars_list |-> error_vars_list, used_variables |-> used_variables,
   defined_vars |-> defined_vars, assigned_vars |-> assigned_vars,
   warned_vars |-> warned_vars, has_output |-> has_output,
   should_break |-> should_break, should_return |-> should_return,
   return_value |-> return_value, console |-> <<>>, exc |-> <<>>, line |-> line]

\* one iteration of execute's loop over the top-level statements: the visit
\* and the handler that records an exception's text
Handler_reraises(r) == r
Handler(r) == IF Ok(r) THEN r ELSE [_add_error(r, r.exc) EXCEPT !.exc = <<>>]
execute(st, node) == Handler(visit(st, node).st)

\* a line that holds none of " and ", " or ", ".add(" and ".clear("
PlainLine == <<FALSE, FALSE, FALSE, FALSE>>

\* The program's next top-level statement is node.  A statement can only
\* stand in a program whose collected names include the names it defines.
\* Scopes of finished calls are unreachable and dropped.
Run(node, line) ==
  /\ pc = "loop"
  /\ i < MaxStmts
  /\ collect_defined_vars(node) \subseteq defined_vars
  /\ \E r \in {execute(Cur(line), node)} :
         /\ scopes' = (IF r.env = 1 THEN <<r.scopes[1]>> ELSE r.scopes)
         /\ env' = r.env
         /\ lists' = r.lists
         /\ errors' = (IF Ok(r) THEN r.errors ELSE _add_error(r, r.exc).errors)
         /\ pc' = (IF Ok(r) THEN "loop" ELSE "aborted")
         /\ error_vars_list' = r.error_vars_list
         /\ used_variables' = r.used_variables
         /\ defined_vars' = r.defined_vars
         /\ assigned_vars' = r.assigned_vars
         /\ warned_vars' = r.warned_vars
         /\ has_output' = r.has_output
         /\ should_break' = r.should_break
         /\ should_return' = r.should_return
         /\ return_value' = r.return_value
         /\ console' = r.console
  /\ stmt' = node
  /\ i' = i + 1
  /\ UNCHANGED main_vars

\* The source has no further statement: check_unused_vars warns, in the
\* order in which Python walks the set, of each defined name that was never
\* used and is not poisoned.
check_unused_vars(unused) ==
  {w \in [1..Cardinality(unused) -> unused] : \A a, b \in DOMAIN w : w[a] = w[b] => a = b}

Finish ==
  /\ pc = "loop"
  /\ \E order \in check_unused_vars({n \in defined_vars \ used_variables :
                                        ~InList(error_vars_list, Key(n))}) :
       console' = [k \in DOMAIN order |-> <<"defined but not used", order[k]>>]
  /\ pc' = "checked"
  /\ stmt' = <<"end">>
  /\ UNCHANGED <<scopes, env, lists, errors, error_vars_list, used_variables,
                 defined_vars, assigned_vars, warned_vars, has_output, should_break,
                 should_return, return_value, i, main_vars>>

\* one action for each kind of top-level statement
VarDef(menu) ==
  \E k \in 1..Len(menu) : menu[k][1] = "var_def" /\ Run(menu[k], PlainLine)
ConstDef(menu) ==
  \E k \in 1..Len(menu) : menu[k][1] = "const_def" /\ Run(menu[k], PlainLine)
ListDef(menu) ==
  \E k \in 1..Len(menu) : menu[k][1] = "list_def" /\ Run(menu[k], PlainLine)
Assignment(menu) ==
  \E k \in 1..Len(menu) : menu[k][1] = "assignment" /\ Run(menu[k], PlainLine)
Cause(menu) ==
  \E k \in 1..Len(menu) : menu[k][1] = "cause_stmt" /\ Run(menu[k], PlainLine)
Again(menu) ==
  \E k \in 1..Len(menu) : menu[k][1] = "again_stmt" /\ Run(menu[k], PlainLine)
RepStop(menu) ==
  \E k \in 1..Len(menu) : menu[k][1] = "rep_stop" /\ Run(menu[k], PlainLine)
FuncDef(menu) ==
  \E k \in 1..Len(menu) : menu[k][1] = "func_def" /\ Run(menu[k], PlainLine)
FuncCallStmt(menu) ==
  \E k \in 1..Len(menu) : menu[k][1] = "func_call_stmt" /\ Run(menu[k], PlainLine)
BackStmt(menu) ==
  \E k \in 1..Len(menu) : menu[k][1] = "back_stmt" /\ Run(menu[k], PlainLine)

OutputStmt(menu) ==
  \E k \in 1..Len(menu) : menu[k][1] = "output_stmt" /\ Run(menu[k], PlainLine)

(***************************************************************************)
(* Syntax, as the parser builds it.                                        *)
(***************************************************************************)
NumLit(n) == <<"NUMBER", IntV(n)>>
FloatLit(num, den) == <<"NUMBER", FloatV(num, den)>>
StrLit(s) == <<"STRING", s>>
Ident(n) == <<"IDENT", n>>
Expr(first, rest) == <<"expr", first, rest>>
Term(first, rest) == <<"term", first, rest>>
NowRepeat == <<"member_access_expr", "now", "repeat">>
FuncCall(f, args) == <<"func_call", f, args>>
MathFuncCall(f, args) == <<"math_func_call", f, args>>
Block(stmts) == <<"block", stmts>>
NewVar(t, n) == <<"var_def", t, n, <<>> >>
NewVarInit(t, n, e) == <<"var_def", t, n, <<e>> >>
Const(t, n, e) == <<"const_def", t, n, e>>
NewList(n, elems) == <<"list_def", n, elems>>
Assign(n, e) == <<"assignment", n, e>>
Condition(l, op, r) == <<"condition", l, op, r>>
CauseIf(c, stmts) == <<"cause_stmt", <<"conditions", <<c>>, <<>> >>, Block(stmts), <<>> >>
AgainStmt(times, stmts) == <<"again_stmt", times, "", Block(stmts)>>
AgainIndexed(times, repeat_var, stmts) == <<"again_stmt", times, repeat_var, Block(stmts)>>
RepStopStmt == <<"rep_stop">>
Fuc(f, params, stmts) == <<"func_def", f, params, Block(stmts)>>
CallStmt(f, args) == <<"func_call_stmt", f, args>>
Back(e) == <<"back_stmt", <<e>> >>
BackNothing == <<"back_stmt", <<>> >>
OutInfo(args) == <<"output_stmt", "out", "Info", args>>
Out(obj, attr, args) == <<"output_stmt", obj, attr, args>>
ListAdd(n, e) == <<"list_method_call", n, "add", <<e>> >>
ListClear(n) == <<"list_method_call", n, "clear", <<>> >>
ListAccess(n, index) == <<"list_access", n, index>>

\* ---------------------------------------------------------------------------
\* Programs about constants: a constant c, assignments to it at top level,
\* inside a Cause block, inside a loop whose index is also called c, and
\* inside function bodies (with and without a parameter called c).
\* ---------------------------------------------------------------------------
True == Condition(NumLit(1), "?", NumLit(1))

MenuConst ==
  << Const("int", "c", NumLit(1)),
     Const("str", "c", StrLit(<<"a">>)),
     Assign("c", NumLit(2)),
     Assign("c", StrLit(<<"b">>)),
     CauseIf(True, <<Assign("c", NumLit(2))>>),
     AgainIndexed(NumLit(2), "c", <<Assign("c", NumLit(5))>>),
     Fuc("g", <<>>, <<Assign("c", NumLit(2))>>),
     Fuc("h", << <<"int", "c">> >>, <<Assign("c", NumLit(9)), Back(Ident("c"))>>),
     CallStmt("g", <<>>),
     CallStmt("h", <<NumLit(4)>>),
     NewVarInit("int", "c", NumLit(7)),
     OutInfo(<<Ident("c")>>) >>

InitConst == InitWith({"c", "g", "h"})

NextConst ==
  \/ ConstDef(MenuConst)
  \/ VarDef(MenuConst)
  \/ Assignment(MenuConst)
  \/ Cause(MenuConst)
  \/ Again(MenuConst)
  \/ FuncDef(MenuConst)
  \/ FuncCallStmt(MenuConst)
  \/ OutputStmt(MenuConst)

SpecConst == InitConst /\ [][NextConst]_vars

\* C1: a constant is never the target of a successful set. Whatever statement
\* runs (an Assignment at top level, in a Cause block, in a loop, or in a
\* function body reaching the constant through an enclosing scope), every
\* constant of every scope that survives the statement is still a constant
\* with the value it had before.
C1_ConstantsNeverChange ==
  [][\A s \in DOMAIN scopes : \A n \in DOMAIN scopes[s].constants :
       s \in DOMAIN scopes' =>
         /\ n \in DOMAIN scopes'[s].constants
         /\ scopes'[s].constants[n] = scopes[s].constants[n]]_vars

\* The body of g assigned to the constant c of the enclosing scope and
\* set_value refused it.
C1_Witness ==
  /\ stmt = CallStmt("g", <<>>)
  /\ "c" \in DOMAIN scopes[1].constants
  /\ InList(errors, <<"Cannot modify constant", "c">>)

\* ---------------------------------------------------------------------------
\* Programs about casts on assignment: an Int variable v and a Float
\* variable w, assigned values that fit their type and values that do not,
\* at top level, in a Cause block and in a loop.
\* ---------------------------------------------------------------------------
MenuCast ==
  << NewVarInit("int", "v", NumLit(1)),
     NewVarInit("float", "w", FloatLit(1, 2)),
     Assign("v", FloatLit(5, 2)),
     Assign("v", StrLit(<<"a", "b">>)),
     Assign("v", StrLit(<<"1", ".", "5">>)),
     Assign("w", StrLit(<<"x">>)),
     Assign("v", FloatLit(2, 1)),
     Assign("v", StrLit(<<"7">>)),
     Assign("w", NumLit(3)),
     Assign("w", StrLit(<<"2", ".", "5">>)),
     CauseIf(True, <<Assign("v", FloatLit(7, 2))>>),
     AgainStmt(NumLit(2), <<Assign("w", StrLit(<<"n", "o">>))>>),
     OutInfo(<<Ident("v"), Ident("w")>>) >>

InitCast == InitWith({"v", "w"})

NextCast ==
  \/ VarDef(MenuCast)
  \/ Assignment(MenuCast)
  \/ Cause(MenuCast)
  \/ Again(MenuCast)
  \/ OutputStmt(MenuCast)

SpecCast == InitCast /\ [][NextCast]_vars

\* the assignment a statement of MenuCast holds
C2_Target(node) ==
  CASE node[1] = "assignment" -> node
    [] node[1] = "cause_stmt" -> node[3][2][1]
    [] node[1] = "again_stmt" -> node[4][2][1]
    [] OTHER -> <<"none">>
\* the texts of MenuCast that spell an integer, and those that spell a number
C2_IntegerTexts == {<<"7">>}
C2_NumericTexts == {<<"7">>, <<"1", ".", "5">>, <<"2", ".", "5">>}
\* the value of a literal, and whether type T cannot hold it without loss
C2_Literal(e) == IF e[1] = "STRING" THEN StrV(e[2]) ELSE e[2]
C2_Lossy(value, T) ==
  \/ T = "int" /\ value[1] = "float" /\ value[3] # 1
  \/ T = "int" /\ value[1] = "str" /\ value[2] \notin C2_IntegerTexts
  \/ T = "float" /\ value[1] = "str" /\ value[2] \notin C2_NumericTexts

\* C2: an Assignment to a variable bound with runtime type T, of a value that
\* T cannot hold without loss (a Float with a fraction into Int, non-integer
\* text into Int, non-numeric text into Float), is rejected: the variable's
\* stored value is the same after the statement and its name is marked as
\* an error variable.
C2_LossyAssignmentRejected ==
  [][\A name \in DOMAIN scopes[1].variables :
       (/\ C2_Target(stmt')[1] = "assignment"
        /\ C2_Target(stmt')[2] = name
        /\ C2_Lossy(C2_Literal(C2_Target(stmt')[3]), scopes[1].variables[name][1]))
       => /\ name \in DOMAIN scopes'[1].variables
          /\ scopes'[1].variables[name] = scopes[1].variables[name]
          /\ InList(error_vars_list', Key(name))]_vars

\* 2.5 was assigned to the Int variable v, which still holds 1
C2_Witness ==
  /\ stmt = Assign("v", FloatLit(5, 2))
  /\ "v" \in DOMAIN scopes[1].variables
  /\ scopes[1].variables["v"] = IntV(1)
  /\ InList(errors, <<"Cannot cast", <<"2", ".", "5">>, "int", <<"v">>, "float">>)

\* ---------------------------------------------------------------------------
\* Programs about loops: a variable x created by the assignment of a text
\* and an Int variable i, loops of zero and more iterations, with no index,
\* with a fresh index k, with the
\* index called repeat, and with an index that names an existing variable;
\* blocks that read now.repeat, that fail, and that stop the loop.
\* ---------------------------------------------------------------------------
Fails == Assign("y", Expr(StrLit(<<"a">>), << <<"-", NumLit(1)>> >>))
ZeroLoop == AgainStmt(NumLit(0), <<Assign("i", NumLit(9))>>)
ZeroLoopIndexed == AgainIndexed(NumLit(0), "i", <<OutInfo(<<StrLit(<<"x">>)>>)>>)
FailingLoop == AgainIndexed(NumLit(1), "x", <<Fails>>)
NowRepeatLoop(repeat_var) == AgainIndexed(NumLit(3), repeat_var, <<OutInfo(<<NowRepeat>>)>>)
StopInCauseLoop ==
  AgainIndexed(NumLit(3), "k",
    << OutInfo(<<Ident("k")>>),
       CauseIf(Condition(Ident("k"), "?", NumLit(2)), <<RepStopStmt>>),
       OutInfo(<<StrLit(<<"b">>)>>) >>)
StopLoop ==
  AgainIndexed(NumLit(3), "k",
    <<OutInfo(<<Ident("k")>>), RepStopStmt, OutInfo(<<StrLit(<<"b">>)>>)>>)

MenuLoop ==
  << Assign("x", StrLit(<<"a">>)),
     NewVarInit("int", "i", NumLit(5)),
     ZeroLoop,
     ZeroLoopIndexed,
     FailingLoop,
     AgainIndexed(NumLit(2), "k", <<Assign("i", Ident("k"))>>),
     NowRepeatLoop("k"),
     NowRepeatLoop("repeat"),
     StopInCauseLoop,
     StopLoop,
     Assign("x", NumLit(3)),
     RepStopStmt,
     OutInfo(<<Ident("x"), Ident("i")>>) >>

InitLoop == InitWith({"x", "i", "y"})

NextLoop ==
  \/ VarDef(MenuLoop)
  \/ Assignment(MenuLoop)
  \/ Again(MenuLoop)
  \/ RepStop(MenuLoop)
  \/ OutputStmt(MenuLoop)

SpecLoop == InitLoop /\ [][NextLoop]_vars

\* what the last statement printed with out.Info
Printed == SelectSeq(console, LAMBDA l : l[1] = "Info")
Line(text) == <<"Info", text>>

\* C3: a variable keeps the type it was created with.  Over any statement
\* (an assignment, a loop with or without an index name), a variable of the
\* root scope that is still bound afterwards has the type tag it had before.
C3_TypeKept ==
  [][\A n \in DOMAIN scopes[1].variables :
       n \in DOMAIN scopes'[1].variables
         => scopes'[1].variables[n][1] = scopes[1].variables[n][1]]_vars

\* C4: a loop whose count is 0, with or without an index name, leaves every
\* binding of every scope as it was.
C4_ZeroLoopKeepsBindings ==
  [][(stmt'[1] = "again_stmt" /\ stmt'[2] = NumLit(0)) => scopes' = scopes]_vars

\* C5: in the block of Again(3, i), whatever the index is called, now.repeat
\* is the number of the iteration, and reading it records no error.
C5_NowRepeatIsIteration ==
  stmt \in {NowRepeatLoop("k"), NowRepeatLoop("repeat")}
    => /\ Printed = <<Line(<<"1">>), Line(<<"2">>), Line(<<"3">>)>>
       /\ ~InList(errors, <<"'now.repeat' can only be used inside an Again loop that provides a repeat parameter">>)

GoodCall == OutInfo(<<FuncCall("f", <<NumLit(3)>>)>>)
TextCall == OutInfo(<<FuncCall("f", <<StrLit(<<"4">>)>>)>>)
BadCastCall == OutInfo(<<FuncCall("f", <<StrLit(<<"x">>)>>)>>)
TooFew == OutInfo(<<FuncCall("f", <<>>)>>)
TooMany == CallStmt("f", <<Ident("u"), Ident("w")>>)

MenuFunc ==
  << Fuc("f", << <<"int", "a">> >>, <<OutInfo(<<StrLit(<<"i", "n">>)>>), Back(Ident("a"))>>),
     Fuc("g", << <<"int", "a">>, <<"str", "b">> >>,
         <<Back(Expr(Ident("b"), << <<"+", Ident("a")>> >>))>>),
     GoodCall,
     TextCall,
     BadCastCall,
     TooFew,
     TooMany,
     CallStmt("f", <<NumLit(3)>>),
     OutInfo(<<FuncCall("g", <<NumLit(3), StrLit(<<"x">>)>>)>>),
     OutInfo(<<FuncCall("g", <<NumLit(3)>>)>>),
     RepStopStmt >>

InitFunc == InitWith({"f", "g"})

NextFunc ==
  \/ FuncDef(MenuFunc)
  \/ FuncCallStmt(MenuFunc)
  \/ OutputStmt(MenuFunc)
  \/ RepStop(MenuFunc)

SpecFunc == InitFunc /\ [][NextFunc]_vars

\* C8: in every state, the call f(3) of the defined, not redefined function
\* f(int a), exact in number and castable, runs the body and yields the
\* value given to back.value: out.Info(f(3)) prints "in" and then 3.
C8_CallYieldsBackValue ==
  [][(/\ stmt' = GoodCall
      /\ "f" \in DOMAIN scopes[1].functions
      /\ ~InList(error_vars_list, Key("f")))
     => Printed' = <<Line(<<"i", "n">>), Line(<<"3">>)>>]_vars

\* errs after msgs have been recorded in order, each text at most once
RECURSIVE C9_Recorded(_, _)
C9_Recorded(errs, msgs) ==
  IF msgs = <<>> THEN errs
  ELSE C9_Recorded(IF InList(errs, Head(msgs)) THEN errs ELSE Append(errs, Head(msgs)),
                   Tail(msgs))

\* C9: a call of the defined function f(int a) with no argument or with two
\* records the arity error, prints nothing (no statement of the body runs
\* and the call yields no value to print), and leaves the scopes, the
\* current environment and the control flags as they were; the arguments
\* are evaluated first, left to right: the errors of reading the undefined
\* u and w stand before the arity error, and nothing else is recorded.
C9_ArityMismatch ==
  [][(/\ stmt' \in {TooFew, TooMany}
      /\ "f" \in DOMAIN scopes[1].functions
      /\ ~InList(error_vars_list, Key("f")))
     => /\ Printed' = <<>>
        /\ scopes' = scopes
        /\ env' = env
        /\ should_break' = should_break
        /\ should_return' = should_return
        /\ return_value' = return_value
        /\ stmt' = TooFew =>
             errors' = C9_Recorded(errors, << <<"Function expects arguments", "f", 1, 0>>,
                                             <<"Invalid argument in output function", 1>> >>)
        /\ stmt' = TooMany =>
             errors' = C9_Recorded(errors, << <<"Variable not defined", "u">>,
                                             <<"Variable not defined", "w">>,
                                             <<"Function expects arguments", "f", 1, 2>> >>)]_vars

\* f was called with two arguments: both were read, then the number was
\* found wrong
C9_Witness ==
  /\ stmt = TooMany
  /\ "f" \in DOMAIN scopes[1].functions
  /\ \E k \in 1..Len(errors) :
       /\ k + 2 <= Len(errors)
       /\ errors[k] = <<"Variable not defined", "u">>
       /\ errors[k + 1] = <<"Variable not defined", "w">>
       /\ errors[k + 2] = <<"Function expects arguments", "f", 1, 2>>

\* ---------------------------------------------------------------------------
\* Programs about diagnostics: a variable x declared without a value, with
\* a value, or created by an assignment; a function f; each defined once or
\* again; reads of x, calls of f and uses of what f gives back.
\* ---------------------------------------------------------------------------
DeclareX == NewVar("int", "x")
ReadX == OutInfo(<<Ident("x")>>)
ReadXTwice == OutInfo(<<Ident("x"), Ident("x")>>)
AssignX == Assign("x", NumLit(2))
DefineF == Fuc("f", <<>>, <<Back(NumLit(1))>>)
CallF == CallStmt("f", <<>>)
PrintF == OutInfo(<<FuncCall("f", <<>>)>>)
AddF == Assign("y", Expr(FuncCall("f", <<>>), << <<"+", NumLit(1)>> >>))

MenuDiag ==
  << DeclareX,
     NewVarInit("int", "x", NumLit(1)),
     ReadX,
     ReadXTwice,
     AssignX,
     DefineF,
     CallF,
     PrintF,
     AddF >>

InitDiag == InitWith({"x", "f", "y"})

NextDiag ==
  \/ VarDef(MenuDiag)
  \/ Assignment(MenuDiag)
  \/ FuncDef(MenuDiag)
  \/ FuncCallStmt(MenuDiag)
  \/ OutputStmt(MenuDiag)

SpecDiag == InitDiag /\ [][NextDiag]_vars

\* C7: the statement that defines a bound name again records exactly one
\* error, and every later statement that refers to the name (a read, an
\* assignment, another definition, a call, a use of the call's result in an
\* expression or in an output) records none.
C7_RedefinitionOneError ==
  [][/\ (/\ stmt' \in {DeclareX, DefineF}
         /\ stmt'[IF stmt' = DeclareX THEN 3 ELSE 2] \in
              DOMAIN scopes[1].variables \cup DOMAIN scopes[1].functions
         /\ ~InList(error_vars_list, Key(stmt'[IF stmt' = DeclareX THEN 3 ELSE 2])))
        => Len(errors') = Len(errors) + 1
     /\ (/\ InList(errors, <<"Variable is already defined", "x">>)
         /\ stmt' \in {DeclareX, ReadX, ReadXTwice, AssignX})
        => errors' = errors
     /\ (/\ InList(errors, <<"Function is already defined", "f">>)
         /\ stmt' \in {DefineF, CallF, PrintF, AddF})
        => errors' = errors]_vars

\* the use-before-assignment warnings of the last statement
Warnings == SelectSeq(console, LAMBDA l : l[1] = "used without assignment")

DivInSum == OutInfo(<<Expr(NumLit(1), << <<"+", Term(NumLit(4), << <<"/", NumLit(0)>> >>)>> >>)>>)
DivThenMore ==
  OutInfo(<<Term(NumLit(8), << <<"/", FloatLit(0, 1)>>, <<"*", NumLit(3)>> >>), StrLit(<<"b">>)>>)
DivByVar == OutInfo(<<Term(StrLit(<<"a">>), << <<"/", Ident("q")>> >>)>>)
DivInBlock ==
  AgainStmt(NumLit(2), <<Assign("y", Term(NumLit(4), << <<"/", NumLit(0)>> >>)),
                         OutInfo(<<Ident("y")>>)>>)

\* reads of the undefined name u, arithmetic on its no-value result inside
\* an iteration and inside a function body called from a block
ReadU == OutInfo(<<Ident("u")>>)
SubU == Assign("y", Expr(Ident("u"), << <<"-", NumLit(1)>> >>))
LoopWithFailure ==
  AgainIndexed(NumLit(2), "k", <<OutInfo(<<Ident("k")>>), SubU, OutInfo(<<StrLit(<<"b">>)>>)>>)
FailingBody == Fuc("f", <<>>, <<SubU>>)
CallerOfFailing == CauseIf(True, <<CallStmt("f", <<>>), OutInfo(<<StrLit(<<"c">>)>>)>>)

MenuErr ==
  << NewVar("int", "q"),
     DivInSum,
     DivThenMore,
     DivByVar,
     DivInBlock,
     OutInfo(<<Term(NumLit(6), << <<"/", NumLit(3)>> >>)>>),
     Fails,
     ReadU,
     LoopWithFailure,
     FailingBody,
     CallerOfFailing >>

InitErr == InitWith({"q", "y", "f"})

NextErr ==
  \/ VarDef(MenuErr)
  \/ Assignment(MenuErr)
  \/ Cause(MenuErr)
  \/ FuncDef(MenuErr)
  \/ Again(MenuErr)
  \/ OutputStmt(MenuErr)
  \/ Finish

SpecErr == InitErr /\ [][NextErr]_vars

\* C11: a division by a divisor equal to zero (the Int 0, the Float 0.0, a
\* variable holding 0) records "Division by zero" and nothing else, the
\* term it stands in is 0 (1 + 4/0 prints 1; 8/0.0*3 prints 0), the rest of
\* the statement runs (the next argument is printed, the next statements of
\* the block run in both iterations) and the loop over the top-level
\* statements goes on.
C11_DivisionByZero ==
  [][(/\ stmt' \in {DivInSum, DivThenMore, DivByVar, DivInBlock}
      /\ (stmt' = DivByVar => /\ "q" \in DOMAIN scopes[1].variables
                              /\ ~InList(error_vars_list, Key("q"))))
     => /\ errors' = (IF InList(errors, <<"Division by zero">>) THEN errors
                      ELSE Append(errors, <<"Division by zero">>))
        /\ pc' = "loop"
        /\ stmt' = DivInSum => Printed' = <<Line(<<"1">>)>>
        /\ stmt' = DivThenMore => Printed' = <<Line(<<"0", "b">>)>>
        /\ stmt' = DivByVar => Printed' = <<Line(<<"0">>)>>
        /\ stmt' = DivInBlock => Printed' = <<Line(<<"0">>), Line(<<"0">>)>>]_vars

\* a division by zero inside a block was followed by the rest of the block,
\* in both iterations, and by a further top-level statement
C11_Witness ==
  /\ i >= 2
  /\ stmt = DivInBlock
  /\ InList(errors, <<"Division by zero">>)
  /\ Printed = <<Line(<<"0">>), Line(<<"0">>)>>
  /\ scopes[1].variables["y"] = IntV(0)
  /\ pc = "loop"

\* C12: the error list never holds the same text twice, and it only grows
\* at its end: what was recorded stays, in its place.
C12_NoDuplicateErrors ==
  [][/\ \A a, b \in 1..Len(errors') : errors'[a] = errors'[b] => a = b
     /\ Len(errors') >= Len(errors)
     /\ SubSeq(errors', 1, Len(errors)) = errors]_vars

\* the same division by zero was met by two statements and recorded once
C12_Witness ==
  /\ i >= 2
  /\ stmt = DivInSum
  /\ console = <<Line(<<"1">>)>>
  /\ errors = <<<<"Division by zero">>>>

\* C13: a statement that fails, by an exception (Python's TypeError of
\* "a" - 1) or by a recorded error (the read of the undefined u), has its
\* failure in the error list, and execute stays in its loop: the statements
\* after it are visited one by one, and check_unused_vars is only reached
\* from the loop.
C13_StatementsIsolated ==
  [][/\ pc' # "aborted"
     /\ pc' = "checked" => pc = "loop" /\ i' = i
     /\ pc' = "loop" => i' = i + 1
     /\ stmt' = Fails => InList(errors', TypeError("-", StrV(<<"a">>), IntV(1)))
     /\ stmt' = ReadU => InList(errors', <<"Variable not defined", "u">>)]_vars

\* the first statement raised, two more were visited, then the unused names
\* were checked
C13_Witness ==
  /\ pc = "checked"
  /\ i = 3
  /\ Len(errors) = 2
  /\ errors[1] = TypeError("-", StrV(<<"a">>), IntV(1))

\* C14: a failure inside an iteration or inside a call unwinds that
\* iteration or call only.  The loop of two iterations whose block prints
\* the index, fails and prints "b" still starts its second iteration; the
\* block that calls the failing f and then prints "c" still prints "c".
C14_FailureUnwindsOnlyItsSequence ==
  [][/\ stmt' = LoopWithFailure => Printed' = <<Line(<<"1">>), Line(<<"2">>)>>
     /\ (stmt' = CallerOfFailing /\ "f" \in DOMAIN scopes[1].functions
            /\ ~InList(error_vars_list, Key("f")))
        => Printed' = <<Line(<<"c">>)>>]_vars

\* C15: an assignment whose target is a constant of the root scope records
\* the error "Cannot assign values to constants afterward", also when the
\* constant's name is poisoned.
C15_ConstantAssignmentIsError ==
  [][(/\ stmt'[1] = "assignment"
      /\ stmt'[2] \in DOMAIN scopes[1].constants)
     => InList(errors', <<"Cannot assign values to constants afterward", stmt'[2]>>)]_vars

\* ---------------------------------------------------------------------------
\* Programs about back.value: functions that give a value back directly,
\* inside a Cause block, inside a loop, and without an expression, each with
\* statements after the back.value.  Programs about calls: a function whose
\* body fails, a caller that goes on after a call, and a back.value at top
\* level, which leaves a pending return value behind.
\* ---------------------------------------------------------------------------
Z == OutInfo(<<StrLit(<<"z">>)>>)
BackDirect == Fuc("r", <<>>, <<OutInfo(<<StrLit(<<"a">>)>>), Back(NumLit(1)), Z, Back(NumLit(2))>>)
BackInCause ==
  Fuc("s", <<>>, <<CauseIf(True, <<Back(StrLit(<<"i", "n">>)), Z>>), Z, Back(NumLit(2))>>)
BackInLoop ==
  Fuc("t", <<>>, <<AgainIndexed(NumLit(3), "k", <<OutInfo(<<Ident("k")>>), Back(Ident("k")), Z>>),
                   Z, Back(NumLit(9))>>)
BackWithout == Fuc("n", <<>>, <<BackNothing, Z, Back(NumLit(5))>>)
CallerGoesOn ==
  Fuc("c", <<>>, <<OutInfo(<<FuncCall("r", <<>>)>>), OutInfo(<<StrLit(<<"b">>)>>), Back(NumLit(3))>>)
Show(f) == OutInfo(<<FuncCall(f, <<>>)>>)

MenuBack ==
  << BackDirect, BackInCause, BackInLoop, BackWithout,
     Show("r"), Show("s"), Show("t"), Show("n") >>

InitBack == InitWith({"r", "s", "t", "n"})

NextBack ==
  \/ FuncDef(MenuBack)
  \/ OutputStmt(MenuBack)

SpecBack == InitBack /\ [][NextBack]_vars

MenuRestore ==
  << BackDirect, CallerGoesOn, FailingBody,
     Show("r"), Show("c"), CallStmt("f", <<>>), CallStmt("r", <<>>),
     Back(NumLit(7)) >>

InitRestore == InitWith({"r", "c", "f", "y"})

NextRestore ==
  \/ FuncDef(MenuRestore)
  \/ FuncCallStmt(MenuRestore)
  \/ OutputStmt(MenuRestore)
  \/ BackStmt(MenuRestore)

SpecRestore == InitRestore /\ [][NextRestore]_vars

\* f is a function of the root scope and its name is not poisoned
Callable(f) == f \in DOMAIN scopes[1].functions /\ ~InList(error_vars_list, Key(f))

\* C16: once back.value has run in a function body, directly, inside a
\* Cause block or inside a loop, no later statement of the invocation runs
\* (none of them prints its "z", no later iteration prints its index) and
\* the call yields the value of that back.value: 1, "in", the index 1, and
\* no value at all after a back.value without an expression, which
\* out.Info reports as an invalid argument.
C16_BackValueEndsInvocation ==
  [][/\ (stmt' = Show("r") /\ Callable("r")) => Printed' = <<Line(<<"a">>), Line(<<"1">>)>>
     /\ (stmt' = Show("s") /\ Callable("s")) => Printed' = <<Line(<<"i", "n">>)>>
     /\ (stmt' = Show("t") /\ Callable("t")) => Printed' = <<Line(<<"1">>), Line(<<"1">>)>>
     /\ (stmt' = Show("n") /\ Callable("n"))
        => /\ Printed' = <<>>
           /\ InList(errors', <<"Invalid argument in output function", 1>>)]_vars

\* the function that gives its loop index back was called: one iteration
\* printed, and the value of the call
C16_Witness ==
  /\ stmt = Show("t")
  /\ Callable("t")
  /\ Printed = <<Line(<<"1">>), Line(<<"1">>)>>

\* C20: after a statement that calls a function, whether the body returned
\* or raised, the current environment, should_return and the pending return
\* value are what they were before it; the caller c goes on after the call
\* of r that ran back.value, and gives back its own value 3.
C20_CallRestoresCaller ==
  [][(stmt'[1] \in {"func_call_stmt", "output_stmt"})
     => /\ env' = env
        /\ should_return' = should_return
        /\ return_value' = return_value
        /\ (stmt' = Show("c") /\ Callable("c") /\ Callable("r"))
           => Printed' = <<Line(<<"a">>), Line(<<"1">>), Line(<<"b">>), Line(<<"3">>)>>]_vars

\* a return value was pending when the failing f was called and raised; it
\* is still pending
C20_Witness ==
  /\ stmt = CallStmt("f", <<>>)
  /\ Callable("f")
  /\ InList(errors, TypeError("-", None, IntV(1)))
  /\ should_return
  /\ return_value = IntV(7)
  /\ env = 1

\* ---------------------------------------------------------------------------
\* Programs about the three tables of a scope: a constant c, a function g
\* and a variable v, definitions of each name in every kind, and loops whose
\* index is called c, g or v, with a block that ends and one that fails.
\* ---------------------------------------------------------------------------
MenuTables ==
  << Const("int", "c", NumLit(1)),
     Fuc("g", <<>>, <<Back(NumLit(1))>>),
     NewVar("int", "v"),
     NewVar("int", "c"),
     Const("int", "g", NumLit(2)),
     Fuc("v", <<>>, <<Back(NumLit(1))>>),
     Assign("g", NumLit(3)),
     AgainIndexed(NumLit(2), "c", <<OutInfo(<<Ident("c")>>)>>),
     AgainIndexed(NumLit(1), "c", <<Fails>>),
     AgainIndexed(NumLit(1), "g", <<Fails>>),
     AgainIndexed(NumLit(1), "v", <<Fails>>) >>

InitTables == InitWith({"c", "g", "v", "y"})

NextTables ==
  \/ ConstDef(MenuTables)
  \/ FuncDef(MenuTables)
  \/ VarDef(MenuTables)
  \/ Assignment(MenuTables)
  \/ Again(MenuTables)

SpecTables == InitTables /\ [][NextTables]_vars

\* C17: in every scope a name is in at most one of the tables variables,
\* constants and functions.
C17_OneTablePerName ==
  \A e \in 1..Len(scopes) :
    /\ DOMAIN scopes[e].variables \cap DOMAIN scopes[e].constants = {}
    /\ DOMAIN scopes[e].variables \cap DOMAIN scopes[e].functions = {}
    /\ DOMAIN scopes[e].constants \cap DOMAIN scopes[e].functions = {}

(***************************************************************************)
(* main and the structural pre-check.  A source is a sequence of lines: a  *)
(* statement <<"stmt", node>>, a line that is only a name <<"name", n>>,   *)
(* which _is_valid_statement rejects, the block comment marks <<"#X">> and *)
(* <<"#Y">>, and the blank line <<"">>.                                    *)
(***************************************************************************)
MaxLines == 3

syntax_add_error(errs, msg) == IF InList(errs, msg) THEN errs ELSE Append(errs, msg)

P(lines, errs) == [lines |-> lines, errors |-> errs]

RECURSIVE preprocess_loop(_, _, _, _, _)
preprocess_loop(lines, line_num, in_block_comment, block_comment_start_line, acc) ==
  IF line_num > Len(lines)
  THEN IF in_block_comment
       THEN P(acc.lines, syntax_add_error(acc.errors, <<"Unclosed block comment", block_comment_start_line>>))
       ELSE acc
  ELSE CASE lines[line_num][1] = "" ->
              preprocess_loop(lines, line_num + 1, in_block_comment, block_comment_start_line, acc)
         [] lines[line_num][1] = "#X" /\ ~in_block_comment ->
              preprocess_loop(lines, line_num + 1, TRUE, line_num, acc)
         [] lines[line_num][1] = "#Y" /\ in_block_comment ->
              preprocess_loop(lines, line_num + 1, FALSE, block_comment_start_line, acc)
         [] lines[line_num][1] = "#Y" /\ ~in_block_comment ->
              preprocess_loop(lines, line_num + 1, FALSE, block_comment_start_line,
                              P(acc.lines, syntax_add_error(acc.errors, <<"Unexpected block comment end">>)))
         [] OTHER ->
              preprocess_loop(lines, line_num + 1, in_block_comment, block_comment_start_line,
                              IF in_block_comment THEN acc ELSE P(Append(acc.lines, lines[line_num]), acc.errors))

preprocess_code(code, errs) == preprocess_loop(code, 1, FALSE, 0, P(<<>>, errs))

RECURSIVE _is_valid_statement(_, _, _)
_is_valid_statement(lines, line_num, errs) ==
  IF line_num > Len(lines) THEN errs
  ELSE _is_valid_statement(lines, line_num + 1,
         IF lines[line_num][1] = "name"
         THEN syntax_add_error(errs, <<"Invalid statement", lines[line_num][2],
                                       "looks like a variable name but not used in assignment">>)
         ELSE errs)

check_syntax(code) ==
  LET Lines(p) == IF p.lines = <<>> THEN p.errors ELSE _is_valid_statement(p.lines, 1, p.errors)
  IN  Lines(preprocess_code(code, <<>>))

\* the statements the parser finds in the processed code
Statements(code) ==
  LET Of(lines) == [k \in 1..Len(lines) |-> lines[k][2]]
  IN  Of(SelectSeq(preprocess_code(code, <<>>).lines, LAMBDA l : l[1] = "stmt"))

\* main: if processed_code.strip() and not syntax_errors
run_evaluator_if_code(processed_code, errs) == processed_code # <<>>
run_evaluator(processed_code, errs) == processed_code # <<>> /\ errs = <<>>

CheckSyntax ==
  /\ pc = "main"
  /\ syntax_errors' = check_syntax(source)
  /\ pc' = (IF run_evaluator(preprocess_code(source, <<>>).lines, check_syntax(source))
            THEN "execute" ELSE "skipped")
  /\ UNCHANGED <<scopes, env, lists, errors, error_vars_list, used_variables,
                 defined_vars, assigned_vars, warned_vars, has_output, should_break,
                 should_return, return_value, console, stmt, i, source, report>>

\* parser.parse(code).  IDENT is a letter or "_" and then letters, digits
\* and "_", and a call in an expression is IDENT "(" ... ")": a call whose
\* name has a "." in it is no factor.  (The statements of the other kinds
\* in the sources hold no call.)
RECURSIVE parse(_)
parse_all(nodes) == \A k \in 1..Len(nodes) : parse(nodes[k])
parse(node) ==
  CASE node[1] \in {"math_func_call", "func_call"} ->
         node[2] \notin {"d.root", "t.root"} /\ parse_all(node[3])
    [] node[1] \in {"expr", "term"} ->
         parse(node[2]) /\ \A k \in 1..Len(node[3]) : parse(node[3][k][2])
    [] node[1] = "output_stmt" -> parse_all(node[4])
    [] node[1] = "var_def" -> parse_all(node[4])
    [] node[1] = "const_def" -> parse(node[4])
    [] node[1] = "assignment" -> parse(node[3])
    [] OTHER -> TRUE

\* execute's first step.  The text of the exception the parser raises names
\* the token it met, "Token(...)": the outer except clause does not record
\* a text with that marker.
Parse ==
  /\ pc = "execute"
  /\ pc' = (IF parse_all(Statements(source)) THEN "loop" ELSE "aborted")
  /\ UNCHANGED <<scopes, env, lists, errors, error_vars_list, used_variables,
                 defined_vars, assigned_vars, warned_vars, has_output, should_break,
                 should_return, return_value, console, stmt, i, main_vars>>

\* original_lines[current_line_num - 1], as visit_logic_op tests it, for
\* the statement at index k of ast.children.  The tree carries no line
\* numbers, so current_line_num is k + 1; the children are the statements
\* and the NEWLINE tokens between them, so the statement after n others is
\* at index 2n.  A line holds " and " when a conditions group on it is
\* written with and; it holds " or " when a group is written with or and
\* when the line goes on to an else-block, "] or [".  (The blocks of the
\* sources hold no Cause statement.)  As visit_list_method_call tests it, a
\* line holds ".add(" or ".clear(" when a list method call with that word
\* is written on it, as a statement or in a block of the statement.
RECURSIVE Calls(_, _)
CallsAny(stmts, method) == \E k \in 1..Len(stmts) : Calls(stmts[k], method)
Calls(node, method) ==
  CASE node[1] = "list_method_call" -> node[3] = method
    [] node[1] = "again_stmt" -> CallsAny(node[4][2], method)
    [] node[1] = "cause_stmt" ->
         CallsAny(node[3][2], method) \/ (node[4] # <<>> /\ CallsAny(node[4][1][2], method))
    [] OTHER -> FALSE

line_content(code, current_line_num) ==
  LET Words(node) == {node[2][3][k][2] : k \in 1..Len(node[2][3])}
      Holds(l) ==
        IF l[1] # "stmt" THEN PlainLine
        ELSE <<l[2][1] = "cause_stmt" /\ "and" \in Words(l[2]),
               l[2][1] = "cause_stmt" /\ ("or" \in Words(l[2]) \/ l[2][4] # <<>>),
               Calls(l[2], "add"), Calls(l[2], "clear")>>
  IN  IF current_line_num <= Len(code) THEN Holds(code[current_line_num]) ELSE PlainLine

Statement ==
  \E k \in 1..Len(Statements(source)) :
     k = i + 1 /\ Run(Statements(source)[k], line_content(source, 2 * i + 1))

EndOfSource == i = Len(Statements(source)) /\ Finish

Report ==
  /\ pc \in {"skipped", "checked", "aborted"}
  /\ report' = (IF syntax_errors \o errors # <<>>
                THEN <<"Total errors", Len(syntax_errors \o errors)>>
                ELSE IF ~has_output
                THEN <<"The project ran successfully, but there was no output">>
                ELSE <<"Execution completed successfully!">>)
  /\ pc' = "done"
  /\ UNCHANGED <<scopes, env, lists, errors, error_vars_list, used_variables,
                 defined_vars, assigned_vars, warned_vars, has_output, should_break,
                 should_return, return_value, console, stmt, i, source, syntax_errors>>

\* ---------------------------------------------------------------------------
\* Sources of up to MaxLines lines: statements that print, that read an
\* undefined name and that declare a variable, a line that is only a name,
\* block comment marks and blank lines.
\* ---------------------------------------------------------------------------
LineMenu ==
  { <<"stmt", OutInfo(<<StrLit(<<"a">>)>>)>>, <<"stmt", ReadU>>, <<"stmt", NewVar("int", "q")>>,
    <<"name", "x">>, <<"#X">>, <<"#Y">>, <<"">> }

Sources == UNION {[1..n -> LineMenu] : n \in 0..MaxLines}

InitMain ==
  /\ source \in Sources
  /\ Constructed(CollectAll(Statements(source)))
  /\ defined_vars = CollectAll(Statements(source))
  /\ pc = "main"
  /\ syntax_errors = <<>>
  /\ report = <<>>

NextMain ==
  \/ CheckSyntax
  \/ Parse
  \/ Statement
  \/ EndOfSource
  \/ Report

SpecMain == InitMain /\ [][NextMain]_vars

\* C18: when check_syntax has returned diagnostics, the evaluator is never
\* run: execute is never entered, no statement is visited, no runtime error
\* is recorded, has_output stays false, and main's final line is the count
\* of the errors found.
C18_PreCheckGatesEvaluator ==
  syntax_errors # <<>>
    => /\ pc \in {"skipped", "done"}
       /\ i = 0
       /\ stmt = <<"start">>
       /\ errors = <<>>
       /\ ~has_output
       /\ pc = "done" => report = <<"Total errors", Len(syntax_errors)>>

\* a source with a statement that would print and a line the pre-check
\* rejects has been reported
C18_Witness ==
  /\ pc = "done"
  /\ syntax_errors # <<>>
  /\ Statements(source) # <<>>
  /\ report = <<"Total errors", 1>>

\* ---------------------------------------------------------------------------
\* Sources about the math functions: lines that print a power, square and
\* cube roots, the root of a negative number and a root of another kind,
\* through rootFor and through d.root, and a declaration whose initial
\* value is a power of 0 with a negative exponent.
\* ---------------------------------------------------------------------------
ShowMath(f, args) == <<"stmt", OutInfo(<<MathFuncCall(f, args)>>)>>
Power2To10 == ShowMath("squFor", <<NumLit(2), NumLit(10)>>)
RootOfNegative == ShowMath("rootFor", <<NumLit(-4), NumLit(2)>>)
RootOfKind5 == ShowMath("rootFor", <<NumLit(16), NumLit(5)>>)
DRootOf16 == ShowMath("d.root", <<NumLit(16)>>)
DRootOfNegative == ShowMath("d.root", <<NumLit(-4)>>)

MathLineMenu ==
  { Power2To10, RootOfNegative, RootOfKind5, DRootOf16, DRootOfNegative,
    ShowMath("rootFor", <<NumLit(16), FloatLit(2, 1)>>),
    ShowMath("rootFor", <<FloatLit(9, 4), StrLit(<<"2">>)>>),
    ShowMath("rootFor", <<NumLit(27), NumLit(3)>>),
    ShowMath("squFor", <<FloatLit(3, 2), NumLit(2)>>),
    <<"stmt", NewVarInit("int", "q", MathFuncCall("squFor", <<NumLit(0), NumLit(-1)>>))>> }

MathSources == UNION {[1..n -> MathLineMenu] : n \in 0..MaxLines}

InitMath ==
  /\ source \in MathSources
  /\ Constructed(CollectAll(Statements(source)))
  /\ defined_vars = CollectAll(Statements(source))
  /\ pc = "main"
  /\ syntax_errors = <<>>
  /\ report = <<>>

NextMath ==
  \/ CheckSyntax
  \/ Parse
  \/ Statement
  \/ EndOfSource
  \/ Report

SpecMath == InitMath /\ [][NextMath]_vars

Recorded(msg) == IF InList(errors, msg) THEN errors ELSE Append(errors, msg)

\* C19: the square root of a negative value, asked through rootFor(v, 2) or
\* through d.root(v), records an error and yields 0; rootFor with a kind
\* other than 2 and 3 records an error and yields 0; squFor(2, 10) yields
\* the Int 1024; d.root(16) yields the Int 4.  A source that is the one
\* line out.Info(d.root(16)) therefore ends with main's line of success,
\* and the one line out.Info(d.root(-4)) with one error.
C19_MathFunctions ==
  [][/\ stmt' = Power2To10[2] => Printed' = <<Line(<<"1", "0", "2", "4">>)>> /\ errors' = errors
     /\ stmt' = RootOfNegative[2]
          => /\ errors' = Recorded(<<"Cannot calculate square root of negative number">>)
             /\ Printed' = <<Line(<<"0">>)>>
     /\ stmt' = RootOfKind5[2]
          => /\ errors' = Recorded(<<"Unsupported root type", <<"5">> >>)
             /\ Printed' = <<Line(<<"0">>)>>
     /\ stmt' = DRootOf16[2] => Printed' = <<Line(<<"4">>)>> /\ errors' = errors
     /\ stmt' = DRootOfNegative[2]
          => /\ errors' = Recorded(<<"Cannot calculate square root of negative number">>)
             /\ Printed' = <<Line(<<"0">>)>>
     /\ (pc' = "done" /\ source = <<DRootOf16>>)
          => report' = <<"Execution completed successfully!">>
     /\ (pc' = "done" /\ source = <<DRootOfNegative>>)
          => report' = <<"Total errors", 1>>]_vars

\* ---------------------------------------------------------------------------
\* Programs about the control flags: a function f whose body is rep.stop,
\* calls of f at top level, inside a loop and inside a Cause block, a
\* rep.stop and a back.value at top level, and statements after them whose
\* blocks and bodies print.
\* ---------------------------------------------------------------------------
StopInBody == Fuc("f", <<>>, <<RepStopStmt>>)
PrintInBody == Fuc("g", <<>>, <<OutInfo(<<StrLit(<<"c">>)>>)>>)
LoopCallingF == AgainStmt(NumLit(2), <<CallStmt("f", <<>>), OutInfo(<<StrLit(<<"a">>)>>)>>)
CauseCallingF == CauseIf(True, <<CallStmt("f", <<>>), OutInfo(<<StrLit(<<"b">>)>>)>>)
CausePrinting == CauseIf(True, <<OutInfo(<<StrLit(<<"b">>)>>)>>)
LoopPrinting == AgainStmt(NumLit(1), <<OutInfo(<<StrLit(<<"a">>)>>)>>)

MenuFlags ==
  << StopInBody,
     PrintInBody,
     LoopCallingF,
     CauseCallingF,
     CausePrinting,
     LoopPrinting,
     CallStmt("f", <<>>),
     CallStmt("g", <<>>),
     RepStopStmt,
     Back(NumLit(1)),
     FailingLoop >>

InitFlags == InitWith({"f", "g"})

NextFlags ==
  \/ FuncDef(MenuFlags)
  \/ FuncCallStmt(MenuFlags)
  \/ Again(MenuFlags)
  \/ Cause(MenuFlags)
  \/ RepStop(MenuFlags)
  \/ BackStmt(MenuFlags)
  \/ Finish

SpecFlags == InitFlags /\ [][NextFlags]_vars

\* f is the function whose body is rep.stop, and it can be called
StopDefined ==
  /\ "f" \in DOMAIN scopes[1].functions
  /\ ~InList(error_vars_list, Key("f"))

\* C21: a call leaves should_break as the caller had it.  With f's body a
\* rep.stop and no flag raised before, a call of f at top level leaves
\* should_break false, Again(2)[ f()  out.Info("a") ] prints a in both
\* iterations and Cause 1 ? 1 [ f()  out.Info("b") ] prints b.
C21_CallRestoresShouldBreak ==
  [][(StopDefined /\ ~should_break /\ ~should_return)
     => /\ stmt' = CallStmt("f", <<>>) => ~should_break'
        /\ stmt' = LoopCallingF => Printed' = <<Line(<<"a">>), Line(<<"a">>)>>
        /\ stmt' = CauseCallingF => Printed' = <<Line(<<"b">>)>>]_vars

\* C22: when a top-level statement starts, and when the last one has ended,
\* should_break and should_return are both false; so a Cause block, a loop
\* block and a function body that print do print.
C22_NoSignalBetweenStatements ==
  /\ pc = "loop" => ~should_break /\ ~should_return
  /\ stmt = CausePrinting => Printed = <<Line(<<"b">>)>>
  /\ stmt = LoopPrinting => Printed = <<Line(<<"a">>)>>

\* ---------------------------------------------------------------------------
\* Programs about scopes: a root variable x that is declared and assigned,
\* a function g that prints its free name x, a function f with a parameter
\* x and a local y that calls g, and a function h with a parameter x that
\* defines k, which prints x, in its own body and calls it.
\* ---------------------------------------------------------------------------
PrintsFreeX == Fuc("g", <<>>, <<OutInfo(<<Ident("x")>>)>>)
CallsG == Fuc("f", << <<"int", "x">> >>, <<NewVarInit("int", "y", NumLit(7)), CallStmt("g", <<>>)>>)
DefinesInside ==
  Fuc("h", << <<"int", "x">> >>,
      <<Fuc("k", <<>>, <<OutInfo(<<Ident("x")>>)>>), CallStmt("k", <<>>)>>)
CallFWith5 == CallStmt("f", <<NumLit(5)>>)
CallHWith5 == CallStmt("h", <<NumLit(5)>>)

MenuScope ==
  << NewVarInit("int", "x", NumLit(1)),
     Assign("x", NumLit(2)),
     PrintsFreeX,
     CallsG,
     DefinesInside,
     CallFWith5,
     CallHWith5,
     CallStmt("g", <<>>) >>

InitScope == InitWith({"x", "g", "f", "h", "y", "k"})

NextScope ==
  \/ VarDef(MenuScope)
  \/ Assignment(MenuScope)
  \/ FuncDef(MenuScope)
  \/ FuncCallStmt(MenuScope)

SpecScope == InitScope /\ [][NextScope]_vars

\* the root scope holds the function under its name, and the name can be called
Defined(f_def) ==
  /\ f_def[2] \in DOMAIN scopes[1].functions
  /\ scopes[1].functions[f_def[2]].body = f_def[4]
  /\ ~InList(error_vars_list, Key(f_def[2]))
  /\ f_def[2] \notin DOMAIN scopes[1].variables

\* C23: a body's free name is looked up from the environment the function
\* was defined in.  g, defined at top level and called from f(5), whose
\* parameter is x, prints the root's x as it is at the call (1, or 2 after
\* the assignment) and never f's 5; with no x in the root it prints no 5
\* and records x as undefined.  k, defined in the body of h, prints h's
\* parameter.  Every function record of the root scope has the root scope
\* as its environment.
C23_LexicalScoping ==
  [][/\ (stmt' = CallFWith5 /\ Defined(PrintsFreeX) /\ Defined(CallsG)
           /\ ~should_break /\ ~should_return /\ ~InList(error_vars_list, Key("x")))
          => /\ Printed' # <<Line(<<"5">>)>>
             /\ "x" \in DOMAIN scopes[1].variables
                  => Printed' = <<Line(ToStr(lists, scopes[1].variables["x"]))>>
             /\ "x" \notin DOMAIN scopes[1].variables
                  => InList(errors', <<"Variable not defined", "x">>)
     /\ (stmt' = CallHWith5 /\ Defined(DefinesInside)
           /\ ~should_break /\ ~should_return /\ ~InList(error_vars_list, Key("x"))
           /\ ~InList(error_vars_list, Key("k")))
          => Printed' = <<Line(<<"5">>)>>
     /\ \A n \in DOMAIN scopes'[1].functions : scopes'[1].functions[n].env = 1]_vars

\* f(5) has been called with x = 2 in the root, and g printed 2
C23_Witness ==
  /\ stmt = CallFWith5
  /\ "x" \in DOMAIN scopes[1].variables
  /\ scopes[1].variables["x"] = IntV(2)
  /\ Printed = <<Line(<<"2">>)>>
  /\ errors = <<>>

\* C24: when an Again statement with an index name has ended, whether all
\* its iterations ran, rep.stop ended it or a statement of its block raised
\* an error, the index name is not among the variables of the current (the
\* root) scope.
C24_IndexUnboundAfterLoop ==
  [][(stmt'[1] = "again_stmt" /\ stmt'[3] # "")
     => stmt'[3] \notin DOMAIN scopes'[1].variables]_vars

\* ---------------------------------------------------------------------------
\* Programs about the count of a loop: a variable n, loops whose count is n
\* and whose block assigns n, a loop whose block assigns its index, counts
\* that are a float, negative, a text and an undefined name.
\* ---------------------------------------------------------------------------
PrintA == OutInfo(<<StrLit(<<"a">>)>>)
CountFromN == AgainStmt(Ident("n"), <<PrintA, Assign("n", NumLit(5))>>)
CountDown == AgainStmt(Ident("n"), <<PrintA, Assign("n", NumLit(0))>>)
AssignsIndex == AgainIndexed(NumLit(2), "k", <<OutInfo(<<Ident("k")>>), Assign("k", NumLit(5))>>)
FloatCount == AgainStmt(FloatLit(27, 10), <<PrintA>>)
NegativeCount == AgainStmt(NumLit(-1), <<PrintA>>)
TextCount == AgainStmt(StrLit(<<"2">>), <<PrintA>>)

MenuCount ==
  << NewVarInit("int", "n", NumLit(2)),
     Assign("n", NumLit(3)),
     CountFromN,
     CountDown,
     AssignsIndex,
     FloatCount,
     NegativeCount,
     TextCount >>

InitCount == InitWith({"n", "k"})

NextCount ==
  \/ VarDef(MenuCount)
  \/ Assignment(MenuCount)
  \/ Again(MenuCount)

SpecCount == InitCount /\ [][NextCount]_vars

LoopError == <<"Loop times must be a non-negative number">>
Times(k, line) == [j \in 1..k |-> line]

\* C25: the count of an Again loop is evaluated once, before the first
\* iteration.  With n a variable of the root holding v, Again(n)[
\* out.Info("a")  n -> 5 ] and Again(n)[ out.Info("a")  n -> 0 ] print a
\* exactly v times; Again(2, k)[ out.Info(k)  k -> 5 ] prints 1 and 2;
\* Again(2.7) runs its block twice; Again(-1) and Again("2") record the
\* error and run their block zero times.
C25_CountEvaluatedOnce ==
  [][/\ (stmt' \in {CountFromN, CountDown} /\ "n" \in DOMAIN scopes[1].variables
           /\ ~InList(error_vars_list, Key("n")))
          => /\ Printed' = Times(scopes[1].variables["n"][2], Line(<<"a">>))
             /\ scopes[1].variables["n"][2] > 0
                  => scopes'[1].variables["n"] = (IF stmt' = CountFromN THEN IntV(5) ELSE IntV(0))
     /\ (stmt' = AssignsIndex /\ ~InList(error_vars_list, Key("k")))
          => Printed' = <<Line(<<"1">>), Line(<<"2">>)>>
     /\ stmt' = FloatCount => Printed' = Times(2, Line(<<"a">>)) /\ errors' = errors
     /\ stmt' \in {NegativeCount, TextCount}
          => /\ Printed' = <<>>
             /\ InList(errors', LoopError)
             /\ \A k \in 1..Len(errors') : errors'[k] = LoopError \/ InList(errors, errors'[k])]_vars

\* a loop over n = 3 whose block sets n to 5 printed three times and left
\* n at 5, and a later loop then printed five times
C25_Witness ==
  /\ stmt = CountFromN
  /\ Printed = Times(5, Line(<<"a">>))
  /\ scopes[1].variables["n"] = IntV(5)
  /\ errors = <<>>

\* C26: the assignment x -> 2, visited when x is bound in no table of the
\* scope chain, leaves x a variable of the current scope holding the Int 2,
\* whatever happened before (a read of the undefined x, a failed definition).
C26_AssignmentCreatesVariable ==
  [][(stmt' = AssignX /\ ~is_defined(scopes, 1, "x"))
     => /\ "x" \in DOMAIN scopes'[1].variables
        /\ scopes'[1].variables["x"] = IntV(2)]_vars

\* ---------------------------------------------------------------------------
\* Sources about Cause: one statement a line, each a Cause whose if-block
\* prints a and whose else-block, if it has one, prints b.  The conditions
\* are 1 ? 1 (true), 1 ? 2 (false), 1 / 0 ? 2 (false, and a division by
\* zero when it is evaluated) and u ? 1 (false, and a read of the undefined
\* u when it is evaluated), alone and joined by and / or.
\* ---------------------------------------------------------------------------
False == Condition(NumLit(1), "?", NumLit(2))
Divides == Condition(Term(NumLit(1), << <<"/", NumLit(0)>> >>), "?", NumLit(2))
ReadsU == Condition(Ident("u"), "?", NumLit(1))
And == <<"logic_op", "and">>
Or == <<"logic_op", "or">>
PrintB == OutInfo(<<StrLit(<<"b">>)>>)
CauseLine(conds, ops) ==
  <<"stmt", <<"cause_stmt", <<"conditions", conds, ops>>, Block(<<PrintA>>), <<>> >> >>
CauseElseLine(conds, ops) ==
  <<"stmt", <<"cause_stmt", <<"conditions", conds, ops>>, Block(<<PrintA>>), <<Block(<<PrintB>>)>> >> >>

TrueOrFalseAndFalse == CauseLine(<<True, False, False>>, <<Or, And>>)
FalseOrTrue == CauseLine(<<False, True>>, <<Or>>)
TrueAndTrue == CauseElseLine(<<True, True>>, <<And>>)
TrueOrDivides == CauseElseLine(<<True, Divides>>, <<Or>>)
FalseAndReadsU == CauseElseLine(<<False, ReadsU>>, <<And>>)
TrueElse == CauseElseLine(<<True>>, <<>>)
FalseElse == CauseElseLine(<<False>>, <<>>)
FalseNoElse == CauseLine(<<False>>, <<>>)

CauseLineMenu ==
  { TrueOrFalseAndFalse, FalseOrTrue, TrueAndTrue, TrueOrDivides, FalseAndReadsU,
    TrueElse, FalseElse, FalseNoElse, <<"stmt", PrintA>> }

CauseSources == UNION {[1..n -> CauseLineMenu] : n \in 0..MaxLines}

InitCause ==
  /\ source \in CauseSources
  /\ Constructed(CollectAll(Statements(source)))
  /\ defined_vars = CollectAll(Statements(source))
  /\ pc = "main"
  /\ syntax_errors = <<>>
  /\ report = <<>>

NextCause ==
  \/ CheckSyntax
  \/ Parse
  \/ Statement
  \/ EndOfSource
  \/ Report

SpecCause == InitCause /\ [][NextCause]_vars

\* C27: a conditions group is the left fold of its conditions' results with
\* the operators as they are written.  1 ? 1 or 1 ? 2 and 1 ? 2 is true at
\* its first or, so its block prints a; 1 ? 2 or 1 ? 1 is true; 1 ? 1 and
\* 1 ? 1 is true; 1 ? 2 and u ? 1 is false, so the else-block prints b.
C27_LeftFoldAsWritten ==
  [][/\ stmt' \in {TrueOrFalseAndFalse[2], FalseOrTrue[2], TrueAndTrue[2]}
          => Printed' = <<Line(<<"a">>)>>
     /\ stmt' = FalseAndReadsU[2] => Printed' = <<Line(<<"b">>)>>]_vars

\* C28: a condition after the point where the group's result is settled is
\* not evaluated.  Cause 1 ? 1 or 1 / 0 ? 2 records no division by zero;
\* Cause 1 ? 2 and u ? 1 records no error and does not mark u as used.
C28_ShortCircuitSuppressesEvaluation ==
  [][/\ stmt' = TrueOrDivides[2] => errors' = errors
     /\ stmt' = FalseAndReadsU[2]
          => errors' = errors /\ used_variables' = used_variables]_vars

\* C29: a Cause with both blocks runs exactly one of them, the if-block on
\* true conditions and the else-block on false ones; a Cause without an
\* else-block runs its if-block or nothing, and nothing on false conditions.
C29_ExactlyOneBlock ==
  [][/\ (stmt'[1] = "cause_stmt" /\ stmt'[4] # <<>>)
          => Printed' \in {<<Line(<<"a">>)>>, <<Line(<<"b">>)>>}
     /\ (stmt'[1] = "cause_stmt" /\ stmt'[4] = <<>>)
          => Printed' \in {<<Line(<<"a">>)>>, <<>>}
     /\ stmt' = TrueElse[2] => Printed' = <<Line(<<"a">>)>>
     /\ stmt' = FalseElse[2] => Printed' = <<Line(<<"b">>)>>
     /\ stmt' = FalseNoElse[2] => Printed' = <<>>]_vars

\* a Cause with false conditions and both blocks printed b, after a Cause
\* with true conditions
C29_Witness ==
  /\ i = 2
  /\ Statements(source)[1] = TrueElse[2]
  /\ stmt = FalseElse[2]
  /\ Printed = <<Line(<<"b">>)>>
  /\ has_output

\* ---------------------------------------------------------------------------
\* Environment.set_value on its own: chains of up to MaxScopes environments,
\* each a child of the one before, in which the name a is bound in any of
\* the three tables of any scope and the name b is a variable of every
\* scope; the call is made on any scope of the chain, for a, b and the
\* unbound name z.
\* ---------------------------------------------------------------------------
MaxScopes == 3
Tables == {"variables", "constants", "functions"}

BindA(scope, tables) ==
  [variables |-> IF "variables" \in tables THEN ("a" :> IntV(1)) @@ scope.variables
                 ELSE scope.variables,
   constants |-> IF "constants" \in tables THEN ("a" :> IntV(2)) @@ scope.constants
                 ELSE scope.constants,
   functions |-> IF "functions" \in tables
                 THEN ("a" :> [params |-> <<>>, body |-> Block(<<>>), env |-> 1]) @@ scope.functions
                 ELSE scope.functions,
   parent |-> scope.parent]

EnvChain(tables) ==
  [k \in 1..Len(tables) |->
     BindA([(IF k = 1 THEN RootScope ELSE NewScope(k - 1))
              EXCEPT !.variables = ("b" :> IntV(3)) @@ @],
           tables[k])]

InitEnv ==
  /\ scopes \in {EnvChain(tables) : tables \in UNION {[1..n -> SUBSET Tables] : n \in 1..MaxScopes}}
  /\ env = Len(scopes)
  /\ lists = <<>>
  /\ errors = <<>>
  /\ error_vars_list = <<>>
  /\ used_variables = {}
  /\ defined_vars = {}
  /\ assigned_vars = {}
  /\ warned_vars = {}
  /\ has_output = FALSE
  /\ should_break = FALSE
  /\ should_return = FALSE
  /\ return_value = None
  /\ console = <<>>
  /\ stmt = <<"start">>
  /\ i = 0
  /\ pc = "loop"
  /\ source = <<>>
  /\ syntax_errors = <<>>
  /\ report = <<>>

\* one call e.set_value(name, 7); stmt records the call and what it raised
SetValue ==
  /\ i = 0
  /\ \E e \in 1..Len(scopes), name \in {"a", "b", "z"} :
       \E r \in {set_value(scopes, e, name, IntV(7))} :
          /\ scopes' = r.scopes
          /\ stmt' = <<"set_value", e, name, IntV(7), r.exc>>
  /\ i' = 1
  /\ UNCHANGED <<env, lists, errors, error_vars_list, used_variables, defined_vars,
                 assigned_vars, warned_vars, has_output, should_break, should_return,
                 return_value, console, pc, main_vars>>

NextEnv == SetValue

SpecEnv == InitEnv /\ [][NextEnv]_vars

\* the scopes from e up to the root, nearest first
RECURSIVE ScopeChain(_, _)
ScopeChain(sc, e) == IF e = 0 THEN <<>> ELSE <<e>> \o ScopeChain(sc, sc[e].parent)
\* those of them that hold the name as a variable or as a constant
Holding(sc, e, name) ==
  SelectSeq(ScopeChain(sc, e),
            LAMBDA s : name \in DOMAIN sc[s].variables \cup DOMAIN sc[s].constants)

\* C30: set_value never creates a binding.  When no scope of the chain
\* holds the name as a variable, or the nearest scope that holds it as a
\* variable or constant holds it as a constant, the call raises and every
\* table of every scope is as before.  When the call does not raise, the
\* one change is the value of the variable in the nearest scope holding it.
\* In both cases every table of every scope binds the names it bound before.
C30_SetValueNeverCreates ==
  [][stmt'[1] = "set_value"
     => /\ (\/ \A k \in 1..Len(ScopeChain(scopes, stmt'[2])) :
                  stmt'[3] \notin DOMAIN scopes[ScopeChain(scopes, stmt'[2])[k]].variables
            \/ /\ Holding(scopes, stmt'[2], stmt'[3]) # <<>>
               /\ stmt'[3] \in DOMAIN scopes[Holding(scopes, stmt'[2], stmt'[3])[1]].constants)
           => stmt'[5] # <<>> /\ scopes' = scopes
        /\ stmt'[5] = <<>>
           => /\ Holding(scopes, stmt'[2], stmt'[3]) # <<>>
              /\ scopes' = [scopes EXCEPT ![Holding(scopes, stmt'[2], stmt'[3])[1]]
                                             .variables[stmt'[3]] = stmt'[4]]
        /\ \A s \in 1..Len(scopes) :
              /\ DOMAIN scopes'[s].variables = DOMAIN scopes[s].variables
              /\ DOMAIN scopes'[s].constants = DOMAIN scopes[s].constants
              /\ DOMAIN scopes'[s].functions = DOMAIN scopes[s].functions
        /\ Len(scopes') = Len(scopes)]_vars

\* a call on the innermost of three scopes went through a scope in which a
\* is a function only and changed the root's variable a
C30_Witness ==
  /\ stmt = <<"set_value", 3, "a", IntV(7), <<>> >>
  /\ Len(scopes) = 3
  /\ "a" \notin DOMAIN scopes[3].variables
  /\ DOMAIN scopes[2].functions = {"a"}
  /\ "a" \notin DOMAIN scopes[2].variables
  /\ scopes[1].variables["a"] = IntV(7)

\* ---------------------------------------------------------------------------
\* Programs about lists: a list xs, a second name ys bound to it by an
\* assignment, add and clear through either name, at top level and in the
\* block of a loop, and add on a name zs that is not defined.  A source is
\* written with its statements on consecutive lines, or with an empty line
\* after each statement.
\* ---------------------------------------------------------------------------
DefXs == <<"stmt", NewList("xs", <<NumLit(1)>>)>>
AddXs == <<"stmt", ListAdd("xs", NumLit(2))>>
ClearXs == <<"stmt", ListClear("xs")>>
AliasYs == <<"stmt", Assign("ys", Ident("xs"))>>
AddYs == <<"stmt", ListAdd("ys", NumLit(3))>>
ClearYs == <<"stmt", ListClear("ys")>>
LoopAddXs == <<"stmt", AgainStmt(NumLit(2), <<ListAdd("xs", NumLit(4))>>)>>
AddZs == <<"stmt", ListAdd("zs", NumLit(1))>>
ListLineMenu == {DefXs, AddXs, ClearXs, AliasYs, AddYs, ClearYs, LoopAddXs, AddZs}

Spaced(p) == [k \in 1..(2 * Len(p)) |-> IF k % 2 = 1 THEN p[(k + 1) \div 2] ELSE <<"">>]
ListPrograms == UNION {[1..n -> ListLineMenu] : n \in 0..MaxLines}
ListSources == ListPrograms \cup {Spaced(p) : p \in ListPrograms}

InitList ==
  /\ source \in ListSources
  /\ Constructed(CollectAll(Statements(source)))
  /\ defined_vars = CollectAll(Statements(source))
  /\ pc = "main"
  /\ syntax_errors = <<>>
  /\ report = <<>>

NextList ==
  \/ CheckSyntax
  \/ Parse
  \/ Statement
  \/ EndOfSource
  \/ Report

SpecList == InitList /\ [][NextList]_vars

\* the list a name of the root scope is bound to: its elements, or <<>> when
\* the name is not bound to a list
IsList(n) ==
  n \in DOMAIN scopes[1].variables /\ TypeName(scopes[1].variables[n]) = "list"
Elements(n) == IF IsList(n) THEN lists[scopes[1].variables[n][2]] ELSE <<>>

\* C31: an add on a defined list appends exactly the evaluated argument as
\* the new last element, and a clear leaves the list empty, at top level and
\* in a block; on a name that is not defined or not a list, both record an
\* error and change nothing.
C31_ListMethodCall ==
  [][/\ (stmt' = AddXs[2] /\ IsList("xs") /\ ~Poisoned(Cur(PlainLine), "xs"))
          => /\ IsList("xs")'
             /\ Elements("xs")' = Append(Elements("xs"), IntV(2))
     /\ (stmt' = ClearXs[2] /\ IsList("xs") /\ ~Poisoned(Cur(PlainLine), "xs"))
          => IsList("xs")' /\ Elements("xs")' = <<>>
     /\ (stmt' = LoopAddXs[2] /\ IsList("xs") /\ ~Poisoned(Cur(PlainLine), "xs"))
          => Elements("xs")' = Elements("xs") \o <<IntV(4), IntV(4)>>
     /\ (stmt' = AddZs[2] /\ ~Poisoned(Cur(PlainLine), "zs"))
          => /\ lists' = lists /\ scopes' = scopes
             /\ Len(errors') = Len(errors) + 1]_vars

\* C32: after an assignment has bound the list of xs to the new name ys, the
\* two names show the same elements after every later statement: an add or
\* a clear through one name is seen through the other.
C32_ReferenceSemantics ==
  [][(IsList("xs") /\ IsList("ys") /\ Elements("xs") = Elements("ys"))
        => /\ IsList("xs")' /\ IsList("ys")'
           /\ Elements("xs")' = Elements("ys")'
           /\ scopes'[1].variables["ys"] = scopes'[1].variables["xs"]]_vars

\* ys was bound to the list [1] of xs, and an add through ys is seen in xs
C32_Witness ==
  /\ stmt = AddYs[2]
  /\ Elements("xs") = <<IntV(1), IntV(3)>>
  /\ Elements("ys") = <<IntV(1), IntV(3)>>

\* ---------------------------------------------------------------------------
\* Programs about definitions of variables: with a number as initial value
\* under another annotation, without an initial value for each type, with a
\* text that is no integer for an Int; a loop whose index k is assigned in
\* its block, and a read of k.
\* ---------------------------------------------------------------------------
StrFive == NewVarInit("str", "s", NumLit(5))
IntHalf == NewVarInit("int", "n", FloatLit(5, 2))
IntNoText == NewVarInit("int", "m", StrLit(<<"a", "b">>))
LoopAssignsK == AgainIndexed(NumLit(1), "k", <<Assign("k", NumLit(5))>>)
ReadK == OutInfo(<<Ident("k")>>)

MenuDef ==
  << StrFive,
     IntHalf,
     NewVar("int", "k"),
     NewVar("float", "w"),
     NewVar("str", "t"),
     IntNoText,
     LoopAssignsK,
     ReadK >>

InitDef == InitWith({"s", "n", "k", "w", "t", "m"})

NextDef ==
  \/ VarDef(MenuDef)
  \/ Again(MenuDef)
  \/ OutputStmt(MenuDef)

SpecDef == InitDef /\ [][NextDef]_vars

\* the definition is visited for a name that is neither bound nor poisoned
Fresh(name) == ~is_defined(scopes, 1, name) /\ ~Poisoned(Cur(PlainLine), name)
Bound(name, value) ==
  name \in DOMAIN scopes[1].variables /\ scopes[1].variables[name] = value

\* C33: a definition with a number as initial value binds the number with
\* its own type whatever the annotation and marks the name assigned; one
\* without initial value binds the zero value of the declared type and
\* leaves the variable unassigned; one whose cast fails binds nothing and
\* poisons the name.
C33_VarDef ==
  [][/\ (stmt' = StrFive /\ Fresh("s")) => Bound("s", IntV(5))' /\ "s" \in assigned_vars'
     /\ (stmt' = IntHalf /\ Fresh("n")) => Bound("n", FloatV(5, 2))' /\ "n" \in assigned_vars'
     /\ \A d \in {NewVar("int", "k"), NewVar("float", "w"), NewVar("str", "t")} :
          (stmt' = d /\ Fresh(d[3]))
            => Bound(d[3], DefaultValue(d[2]))' /\ d[3] \notin assigned_vars'
     /\ (stmt' = IntNoText /\ Fresh("m"))
          => /\ ~is_defined(scopes', 1, "m")
             /\ InList(error_vars_list', Key("m"))]_vars

\* ---------------------------------------------------------------------------
\* cast_type on its own: the value is an Int of -MaxInt..MaxInt, a Float
\* with a numerator of that range over 1, 2 or 4, or a text of up to MaxText
\* characters of TextChars; it is cast, with no variable name, into any of
\* the three types, and what the cast returns is cast again.
\* ---------------------------------------------------------------------------
MaxInt == 12
MaxText == 3
TextChars == {"-", "7", "0", "a", "."}
CastInputs ==
  {IntV(n) : n \in (-MaxInt)..MaxInt}
    \cup {FloatV(n, d) : n \in (-MaxInt)..MaxInt, d \in {1, 2, 4}}
    \cup {StrV(t) : t \in UNION {[1..n -> TextChars] : n \in 0..MaxText}}

InitCastType ==
  /\ scopes = <<RootScope>>
  /\ env = 1
  /\ lists = <<>>
  /\ errors = <<>>
  /\ error_vars_list = <<>>
  /\ used_variables = {}
  /\ defined_vars = {}
  /\ assigned_vars = {}
  /\ warned_vars = {}
  /\ has_output = FALSE
  /\ should_break = FALSE
  /\ should_return = FALSE
  /\ return_value \in CastInputs
  /\ console = <<>>
  /\ stmt = <<"start">>
  /\ i = 0
  /\ pc = "loop"
  /\ source = <<>>
  /\ syntax_errors = <<>>
  /\ report = <<>>

\* one call cast_type(value, type_name) on the value held; stmt records the
\* value, the type, what was returned and the record of the call before
CastType ==
  /\ i < 2
  /\ return_value # None
  /\ \E type_name \in {"int", "float", "str"} :
       \E r \in {cast_type(Cur(PlainLine), return_value, type_name, <<>>)} :
          /\ return_value' = r.val
          /\ errors' = r.st.errors
          /\ error_vars_list' = r.st.error_vars_list
          /\ stmt' = <<"cast_type", return_value, type_name, r.val, stmt>>
  /\ i' = i + 1
  /\ UNCHANGED <<scopes, env, lists, used_variables, defined_vars, assigned_vars,
                 warned_vars, has_output, should_break, should_return, console, pc,
                 main_vars>>

NextCastType == CastType

SpecCastType == InitCastType /\ [][NextCastType]_vars

\* an optional minus sign and then decimal digits, at least one
IntegerText(t) ==
  LET Body(b) == b # <<>> /\ \A k \in 1..Len(b) : b[k] \in Digits
  IN  Body(IF t # <<>> /\ t[1] = "-" THEN Tail(t) ELSE t)
IntegerOf(t) == IF t[1] = "-" THEN -ParseNat(Tail(t)) ELSE ParseNat(t)

\* C34: a cast to Int gives an Int back unchanged, a text its number when it
\* is an optional minus sign followed by decimal digits, a Float its value
\* when it has no fractional part; any other text or Float gives no value
\* and records an error.  So an Int cast to Str or to Float and then to Int
\* is the Int again.
C34_CastToInt ==
  (stmt[1] = "cast_type" /\ stmt[3] = "int")
    => /\ TypeName(stmt[2]) = "int" => stmt[4] = stmt[2] /\ errors = <<>>
       /\ TypeName(stmt[2]) = "str" =>
            IF IntegerText(stmt[2][2])
            THEN stmt[4] = IntV(IntegerOf(stmt[2][2])) /\ errors = <<>>
            ELSE stmt[4] = None /\ Len(errors) = 1
       /\ TypeName(stmt[2]) = "float" =>
            IF stmt[2][3] = 1
            THEN stmt[4] = IntV(stmt[2][2]) /\ errors = <<>>
            ELSE stmt[4] = None /\ Len(errors) = 1
       /\ (/\ stmt[5][1] = "cast_type"
           /\ stmt[5][3] \in {"str", "float"}
           /\ TypeName(stmt[5][2]) = "int")
            => stmt[4] = stmt[5][2]

\* -7 was cast to the text "-7" and the text back to -7
C34_Witness ==
  /\ stmt[1] = "cast_type"
  /\ stmt[3] = "int"
  /\ stmt[2] = StrV(<<"-", "7">>)
  /\ stmt[4] = IntV(-7)
  /\ stmt[5] = <<"cast_type", IntV(-7), "str", StrV(<<"-", "7">>), <<"start">> >>

\* ---------------------------------------------------------------------------
\* Programs about output: out.Info, out.Warn and out.Error with a text, with
\* no argument, with the undefined u as only and as second argument, with an
\* argument that raises; the receivers now.repeat and out.Print; an output
\* in the block of a Cause and in the block of a loop that runs 0 times.
\* ---------------------------------------------------------------------------
TextA == StrLit(<<"a">>)
InfoA == Out("out", "Info", <<TextA>>)
WarnA == Out("out", "Warn", <<TextA>>)
ErrorA == Out("out", "Error", <<TextA>>)
InfoNothing == Out("out", "Info", <<>>)
InfoU == Out("out", "Info", <<Ident("u")>>)
WarnAThenU == Out("out", "Warn", <<TextA, Ident("u")>>)
InfoRaises == Out("out", "Info", <<Expr(TextA, << <<"-", NumLit(1)>> >>)>>)
NowRepeatA == Out("now", "repeat", <<TextA>>)
OutPrintA == Out("out", "Print", <<TextA>>)
CauseInfoA == CauseIf(True, <<InfoA>>)
NoLoopInfoA == AgainStmt(NumLit(0), <<InfoA>>)

MenuOut ==
  << InfoA, WarnA, ErrorA, InfoNothing, InfoU, WarnAThenU, InfoRaises,
     NowRepeatA, OutPrintA, CauseInfoA, NoLoopInfoA >>

InitOut == InitWith({})

NextOut ==
  \/ OutputStmt(MenuOut)
  \/ Cause(MenuOut)
  \/ Again(MenuOut)

SpecOut == InitOut /\ [][NextOut]_vars

\* the lines the statement wrote through out.Info, out.Warn and out.Error
Written == SelectSeq(console, LAMBDA l : l[1] \in {"Info", "Warn", "Error"})

\* C35: has_output is false at the start and never goes back to false.  A
\* statement turns it true exactly when an output statement with receiver
\* out.Info, out.Warn or out.Error in it has evaluated all its arguments
\* to values, which is when a line is written.  An output statement with
\* another receiver, or with an argument that has no value, records an
\* error, writes nothing and leaves the flag as it is.
C35_HasOutput ==
  /\ ~has_output
  /\ [][/\ has_output => has_output'
        /\ has_output' = (has_output \/ Written' # <<>>)
        /\ stmt' \in {InfoA, WarnA, ErrorA, InfoNothing, CauseInfoA} => has_output'
        /\ stmt' \in {InfoU, WarnAThenU, NowRepeatA, OutPrintA}
             => /\ has_output' = has_output
                /\ Written' = <<>>
                /\ errors' # <<>>
                /\ (Len(errors') > Len(errors)
                      \/ \A k \in 1..Len(errors') : InList(errors, errors'[k]))
        /\ stmt' \in {InfoRaises, NoLoopInfoA}
             => has_output' = has_output /\ Written' = <<>>]_vars

\* out.Warn("a", u) was run before anything was written: an error, no line,
\* no output
C35_Witness ==
  /\ stmt = WarnAThenU
  /\ ~has_output
  /\ Written = <<>>
  /\ InList(errors, <<"Invalid argument in output function", 2>>)

\* ---------------------------------------------------------------------------
\* Programs about a poisoned name: x is declared, declared again under each
\* kind of definition (which poisons it), and assigned a number and the
\* quotient 1 / 0.
\* ---------------------------------------------------------------------------
AssignXQuotient == Assign("x", Term(NumLit(1), << <<"/", NumLit(0)>> >>))

MenuPoison ==
  << DeclareX,
     Const("int", "x", NumLit(1)),
     NewList("x", <<NumLit(1)>>),
     Fuc("x", <<>>, <<Back(NumLit(1))>>),
     AssignX,
     AssignXQuotient >>

InitPoison == InitWith({"x"})

NextPoison ==
  \/ VarDef(MenuPoison)
  \/ ConstDef(MenuPoison)
  \/ ListDef(MenuPoison)
  \/ FuncDef(MenuPoison)
  \/ Assignment(MenuPoison)

SpecPoison == InitPoison /\ [][NextPoison]_vars

\* C36: the list of poisoned names only grows, and once x is poisoned no
\* later definition of x as a variable, constant, list or function and no
\* later assignment to x creates or changes a binding or records an error.
C36_PoisonBlocksBinding ==
  [][/\ Len(error_vars_list') >= Len(error_vars_list)
     /\ SubSeq(error_vars_list', 1, Len(error_vars_list)) = error_vars_list
     /\ Poisoned(Cur(PlainLine), "x")
          => /\ scopes' = scopes
             /\ lists' = lists
             /\ errors' = errors]_vars

\* ---------------------------------------------------------------------------
\* Programs about call depth: f fails in its body, d calls f as a statement,
\* e calls d in the argument of an output; r gives back 1 and g gives back
\* what r gives back.  Each is called from the top level.
\* ---------------------------------------------------------------------------
CallsFailing == Fuc("d", <<>>, <<CallStmt("f", <<>>), Z>>)
CallsDeeper == Fuc("e", <<>>, <<OutInfo(<<FuncCall("d", <<>>)>>), Z>>)
GivesBackR == Fuc("g", <<>>, <<Back(FuncCall("r", <<>>))>>)

MenuDepth ==
  << FailingBody, CallsFailing, CallsDeeper, BackDirect, GivesBackR,
     CallStmt("f", <<>>), CallStmt("d", <<>>), CallStmt("e", <<>>), Show("g") >>

InitDepth == InitWith({"f", "d", "e", "r", "g", "y"})

NextDepth ==
  \/ FuncDef(MenuDepth)
  \/ FuncCallStmt(MenuDepth)
  \/ OutputStmt(MenuDepth)

SpecDepth == InitDepth /\ [][NextDepth]_vars

\* C37: when a top-level statement starts and when it has finished, by
\* returning or by an error raised at any call depth, the current
\* environment is the root environment.
C37_RootEnvironmentBetweenStatements == env = 1

\* e called d, d called f, f raised: the error is recorded, nothing after
\* the calls ran, and the environment is the root again
C37_Witness ==
  /\ stmt = CallStmt("e", <<>>)
  /\ Callable("e") /\ Callable("d") /\ Callable("f")
  /\ InList(errors, TypeError("-", None, IntV(1)))
  /\ Printed = <<>>
  /\ env = 1

\* ---------------------------------------------------------------------------
\* Programs about the bindings of an invocation: the body of f defines the
\* variable y, creates z by an assignment, defines the list l, the constant
\* c and the function k, counts its invocations in the root's variable n
\* and prints y.  f is called as a statement and twice by a loop.
\* ---------------------------------------------------------------------------
CountsN == Assign("n", Expr(Ident("n"), << <<"+", NumLit(1)>> >>))
BindsInside ==
  Fuc("f", <<>>,
      << NewVarInit("int", "y", NumLit(7)),
         Assign("z", NumLit(1)),
         NewList("l", <<NumLit(1)>>),
         Const("int", "c", NumLit(1)),
         Fuc("k", <<>>, <<Back(NumLit(1))>>),
         CountsN,
         OutInfo(<<Ident("y")>>) >>)
LoopCallsF == AgainStmt(NumLit(2), <<CallStmt("f", <<>>)>>)

MenuLocal ==
  << NewVarInit("int", "n", NumLit(0)),
     BindsInside,
     CallStmt("f", <<>>),
     LoopCallsF >>

InitLocal == InitWith({"n", "f", "y", "z", "l", "c", "k"})

NextLocal ==
  \/ VarDef(MenuLocal)
  \/ FuncDef(MenuLocal)
  \/ FuncCallStmt(MenuLocal)
  \/ Again(MenuLocal)

SpecLocal == InitLocal /\ [][NextLocal]_vars

\* the names the body of f binds
LocalNames == {"y", "z", "l", "c", "k"}

\* C38: what an invocation binds lives in the scope of that invocation.
\* After a statement that calls f, none of the names the body binds is
\* defined in the root scope, whose tables bind the names they bound
\* before; and no invocation finds a name of an earlier one still bound:
\* none records an "already defined" error, each prints the 7 it gave y.
C38_BindingsLiveInInvocation ==
  [][/\ \A name \in LocalNames : ~is_defined(scopes', 1, name)
     /\ stmt' \in {CallStmt("f", <<>>), LoopCallsF}
          => /\ DOMAIN scopes'[1].variables = DOMAIN scopes[1].variables
             /\ DOMAIN scopes'[1].constants = DOMAIN scopes[1].constants
             /\ DOMAIN scopes'[1].functions = DOMAIN scopes[1].functions
             /\ \A k \in 1..Len(errors') :
                  errors'[k][1] \in {"Variable is already defined",
                                     "Constant is already defined",
                                     "List is already defined",
                                     "Function is already defined"}
                    => errors'[k][2] \notin LocalNames
             /\ \A k \in 1..Len(Printed') : Printed'[k] = Line(<<"7">>)]_vars

\* f has been called a second time: n is 2, y was bound and printed again,
\* and no error was recorded
C38_Witness ==
  /\ stmt = CallStmt("f", <<>>)
  /\ Bound("n", IntV(2))
  /\ Printed = <<Line(<<"7">>)>>
  /\ errors = <<>>
  /\ ~is_defined(scopes, 1, "y")

\* ---------------------------------------------------------------------------
\* Programs about nested loops: an outer loop of two iterations whose block
\* holds an inner loop and then prints b.  The inner loop stops at once, or
\* in a Cause block when its index is 2, or not at all while the outer loop
\* stops after it.  Beside them a counter n, and rep.stop at top level.
\* ---------------------------------------------------------------------------
PrintsB == OutInfo(<<StrLit(<<"b">>)>>)
InnerStops ==
  AgainIndexed(NumLit(2), "o",
    << AgainIndexed(NumLit(3), "k", <<OutInfo(<<Ident("k")>>), RepStopStmt, Z>>),
       PrintsB >>)
InnerStopsInCause ==
  AgainStmt(NumLit(2),
    << AgainIndexed(NumLit(3), "k",
         << OutInfo(<<Ident("k")>>),
            CauseIf(Condition(Ident("k"), "?", NumLit(2)), <<RepStopStmt>>),
            Z >>),
       PrintsB >>)
OuterStops ==
  AgainStmt(NumLit(2),
    <<AgainStmt(NumLit(2), <<OutInfo(<<StrLit(<<"a">>)>>)>>), RepStopStmt, PrintsB>>)

MenuNest ==
  << InnerStops, InnerStopsInCause, OuterStops, StopLoop, RepStopStmt,
     NewVarInit("int", "n", NumLit(0)), CountsN >>

InitNest == InitWith({"n"})

NextNest ==
  \/ Again(MenuNest)
  \/ RepStop(MenuNest)
  \/ VarDef(MenuNest)
  \/ Assignment(MenuNest)

SpecNest == InitNest /\ [][NextNest]_vars

\* C39: rep.stop in the block of an inner loop ends the inner loop only.
\* The outer iteration goes on with the statement after the inner loop and
\* the outer loop runs its second iteration: the inner loop that stops at
\* once prints 1, then b follows, twice; the one that stops at index 2
\* prints 1, z, 2, then b follows, twice.  A rep.stop of the outer block
\* ends the outer loop after the inner loop has run in full.
C39_InnerStopEndsInnerLoop ==
  [][/\ stmt' = InnerStops
          => Printed' = <<Line(<<"1">>), Line(<<"b">>), Line(<<"1">>), Line(<<"b">>)>>
     /\ stmt' = InnerStopsInCause
          => Printed' = <<Line(<<"1">>), Line(<<"z">>), Line(<<"2">>), Line(<<"b">>),
                          Line(<<"1">>), Line(<<"z">>), Line(<<"2">>), Line(<<"b">>)>>
     /\ stmt' = OuterStops => Printed' = <<Line(<<"a">>), Line(<<"a">>)>>
     /\ stmt'[1] = "again_stmt" => ~should_break']_vars

\* the nested loops ran as a later statement of a program: the inner loop
\* stopped in both outer iterations, and each went on to print its b
C39_Witness ==
  /\ stmt = InnerStops
  /\ i > 1
  /\ Printed = <<Line(<<"1">>), Line(<<"b">>), Line(<<"1">>), Line(<<"b">>)>>
  /\ ~should_break
  /\ errors = <<>>
====
